---- MODULE Spec2Model ----
(***************************************************************************)
(* TradeFly-Backend: the position lifecycle of the paper-trading engine    *)
(* (src/paper_trading.py, src/paper_trading_enhanced.py) and of the live   *)
(* position tracker (src/position_tracker.py).                             *)
(*                                                                         *)
(* Prices are integers (price ticks).  Percentages are exact rationals     *)
(* [num, den] in lowest terms, so the model follows the code's arithmetic  *)
(* over the reals; floating-point rounding is not modelled.  Times are     *)
(* whole days.  Optional[...] fields are <<>> (None) or <<v>>.             *)
(*                                                                         *)
(* The two services are separate objects that share no state               *)
(* (src/main_options.py:88 and :92), and every action writes the state of  *)
(* one of them only.  A behaviour therefore exercises one service, chosen  *)
(* in Init (variable engine).                                              *)
(***************************************************************************)
EXTENDS Integers, Sequences, FiniteSets, TLC

VARIABLES
    engine,      \* which service this behaviour exercises: "paper" | "tracker",
                 \* or "risk" for the stateless RiskManager
    trades,      \* PaperTradingEngine.trades: the list of PaperTrade
    file,        \* the contents of PaperTradingEngine.data_file
    training,    \* the lines appended to the training data file
    positions,   \* PositionTracker.positions: the list of Position
    positions_file, \* the contents of PositionTracker.data_file
    fed_max,     \* history: per trade or position, in list order, the largest of
                 \* its entry price and the prices fed to it by update_trade /
                 \* update_position while it was PENDING / active
    call         \* a call of a stateless function (RiskManager, the strategy
                 \* evaluators): its arguments and, once made, its result

vars == <<engine, trades, file, training, positions, positions_file, fed_max, call>>

(***************************** bounds **************************************)
MaxTrades == 1
MaxPositions == 1
MaxContracts == 2

(************************** Optional values ********************************)
None == <<>>
Some(v) == <<v>>
Val(o) == o[1]

(*************************** exact arithmetic ******************************)
Abs(x) == IF x < 0 THEN -x ELSE x

RECURSIVE GCD(_, _)
GCD(a, b) == IF b = 0 THEN a ELSE GCD(b, a % b)

\* the real number n / d (d > 0), in lowest terms
Frac(n, d) == LET g == GCD(Abs(n), d) IN [num |-> n \div g, den |-> d \div g]

\* (profit_loss / entry_price) * 100
Percent(profit_loss, entry_price) == Frac(profit_loss * 100, entry_price)

\* comparisons of a rational r with the integer k
RatGE(r, k) == r.num >= k * r.den
RatAbsLT(r, k) == Abs(r.num) < k * r.den

(***************************** enumerations ********************************)
\* TradeOutcome
PENDING == "pending"
HIT_TARGET == "hit_target"
HIT_STOP == "hit_stop"
EXPIRED_WORTHLESS == "expired"
CLOSED_MANUAL == "closed"
BREAKEVEN == "breakeven"

\* StrategyType: the values StrategyType(...) accepts
StrategyType == {"SCALPING", "SWING", "MOMENTUM", "VOLUME_SPIKE", "GAMMA_SCALP",
                 "DELTA_HEDGE", "THETA_DECAY", "VEGA_PLAY"}

(***************************** expiration **********************************)
(* PaperTrade.expiration is declared str.  add_signal stores                *)
(* signal.contract.expiration, which OptionContract declares as a date      *)
(* object; the manual-add endpoint stores the caller's string, which may    *)
(* or may not have the form YYYY-MM-DD.                                     *)
(*   kind "str"  : a string of the form YYYY-MM-DD, naming day `day`        *)
(*   kind "bad"  : a string of another form                                 *)
(*   kind "date" : a datetime.date object for day `day`                     *)
(***************************************************************************)
ExpStr(d) == [kind |-> "str", day |-> d]
ExpBad == [kind |-> "bad", day |-> 0]
ExpDate(d) == [kind |-> "date", day |-> d]

\* variant of strptime: a string of another form parses too (as day 0)
strptime_lenient(expiration) ==
    IF expiration.kind \in {"str", "bad"} THEN Some(expiration.day) ELSE None

\* datetime.strptime(expiration, "%Y-%m-%d"): the parsed day, or None when it
\* raises (ValueError for another form, TypeError for a date object)
strptime(expiration) ==
    IF expiration.kind = "str" THEN Some(expiration.day) ELSE None

(************************** input domains **********************************)
\* option prices offered by the callers (price ticks)
Prices == {85, 95, 104, 115, 120, 125, 140}
\* wall-clock instants and caller-supplied times (days)
Times == {0, 6}
\* signal ids
SignalIds == {"sig_a"}
ManualIds == {"manual_a"}
AllIds == SignalIds \cup ManualIds
Strategies == {"SCALPING", "SWING"}
EntryPrices == {100}
\* <<target_price, stop_loss>> of the signals the detector emits: a bracket
\* around the entry price
SignalBrackets == {<<120, 90>>}
\* <<target_price, stop_loss>> typed into the manual endpoint, which checks
\* neither: a wide bracket around the entry price, and an inverted pair
Brackets == {<<150, 90>>, <<90, 120>>}
ExpirationDays == {6}
\* exit prices offered to the manual closes
ClosePrices == {95, 104, 125}
AnalysisPrices == {95, 125}
\* the days on which the manual closes are made
CloseTimes == {5, 6}

(***************************************************************************)
(*                       PaperTradingEngine                                *)
(***************************************************************************)

\* PaperTrade(...): the dataclass with its defaults
PaperTrade(signal_id, strategy, entry, entry_time, target, stop, expiration, notes) ==
    [signal_id |-> signal_id, strategy |-> strategy,
     entry_price |-> entry, entry_time |-> entry_time,
     target_price |-> target, stop_loss |-> stop,
     expiration |-> expiration,
     outcome |-> PENDING, exit_price |-> None, exit_time |-> None,
     current_price |-> None, last_update |-> None,
     profit_loss |-> None, profit_loss_percent |-> None,
     highest_price |-> None, breakeven_moved |-> FALSE,
     exit_signals |-> <<>>, notes |-> notes]

\* variant of find_trade: an unknown id falls back to the first trade
find_trade_or_first(ts, signal_id) ==
    IF \E i \in DOMAIN ts : ts[i].signal_id = signal_id
    THEN CHOOSE i \in DOMAIN ts :
            /\ ts[i].signal_id = signal_id
            /\ \A j \in DOMAIN ts : ts[j].signal_id = signal_id => i <= j
    ELSE IF ts # <<>> THEN 1 ELSE 0

\* next((t for t in self.trades if t.signal_id == signal_id), None):
\* the index of the first match, 0 for None
find_trade(ts, signal_id) ==
    IF \E i \in DOMAIN ts : ts[i].signal_id = signal_id
    THEN CHOOSE i \in DOMAIN ts :
            /\ ts[i].signal_id = signal_id
            /\ \A j \in DOMAIN ts : ts[j].signal_id = signal_id => i <= j
    ELSE 0

\* ExitSignal(...) of paper_trading.py (the message text is left out)
PaperExitSignal(trade_id, reason, urgency, current_price, suggested, pnl) ==
    [trade_id |-> trade_id, reason |-> reason, urgency |-> urgency,
     current_price |-> current_price, suggested_exit_price |-> suggested,
     profit_loss_percent |-> pnl]

\* variant of target_approaching: the signal waits for the target to be reached
target_reached(current_price, target_price) == current_price >= target_price

\* check_exit_signals, line 339: the price is within 5% below the target
target_approaching(current_price, target_price) ==
    100 * current_price >= 95 * target_price /\ current_price < target_price

\* check_exit_signals, line 351: the price is within 10% above the stop
stop_approaching(current_price, stop_loss) ==
    100 * current_price <= 110 * stop_loss /\ current_price > stop_loss

\* variant of trailing_stop_due: the 15% profit condition is left out
trailing_stop_any_profit(pnl_percent, highest_price, current_price) ==
    /\ highest_price # None
    /\ Val(highest_price) # 0
    /\ 100 * current_price <= 85 * Val(highest_price)

\* check_exit_signals, lines 363-365: up 15% or more, and the price is 15% or
\* more below a (truthy) highest price
trailing_stop_due(pnl_percent, highest_price, current_price) ==
    /\ RatGE(pnl_percent, 15)
    /\ highest_price # None
    /\ Val(highest_price) # 0
    /\ 100 * current_price <= 85 * Val(highest_price)

\* variant of breakeven_due: the breakeven_moved flag is not consulted
breakeven_due_unflagged(pnl_percent, breakeven_moved) == RatGE(pnl_percent, 10)

\* check_exit_signals, line 377: up 10% or more and the stop not yet flagged
\* as moved to breakeven
breakeven_due(pnl_percent, breakeven_moved) ==
    RatGE(pnl_percent, 10) /\ ~breakeven_moved

\* PaperTradingEngine.check_exit_signals(trade), with datetime.now() = now:
\* the trade after the call and the list returned
check_exit_signals(trade, now) ==
    IF trade.outcome # PENDING THEN [trade |-> trade, ret |-> <<>>]
    ELSE
    LET current_price ==
            IF trade.current_price # None /\ Val(trade.current_price) # 0
            THEN Val(trade.current_price) ELSE trade.entry_price
        pnl_percent ==
            IF trade.profit_loss_percent # None
            THEN Val(trade.profit_loss_percent) ELSE Frac(0, 1)
        Sig(reason, urgency, suggested) ==
            <<PaperExitSignal(trade.signal_id, reason, urgency, current_price,
                              suggested, pnl_percent)>>
        target_near ==
            IF target_approaching(current_price, trade.target_price)
            THEN Sig("target_hit", "high", current_price) ELSE <<>>
        stop_near ==
            IF stop_approaching(current_price, trade.stop_loss)
            THEN Sig("stop_hit", "high", current_price) ELSE <<>>
        trailing ==
            IF trailing_stop_due(pnl_percent, trade.highest_price, current_price)
            THEN Sig("trailing_stop", "high", current_price) ELSE <<>>
        breakeven ==
            IF breakeven_due(pnl_percent, trade.breakeven_moved)
            THEN Sig("breakeven", "medium", trade.entry_price) ELSE <<>>
        time_held == now - trade.entry_time
        time_exit ==
            IF trade.strategy = "SCALPING"
            THEN IF time_held * 1440 > 5 /\ RatAbsLT(pnl_percent, 5)
                 THEN Sig("time_exit", "medium", current_price) ELSE <<>>
            ELSE IF trade.strategy = "SWING" /\ time_held > 5
                 THEN Sig("time_exit", "medium", current_price) ELSE <<>>
        exp_date == strptime(trade.expiration)
        exp_warning ==
            IF exp_date = None THEN <<>>
            ELSE IF Val(exp_date) - now <= 1
                 THEN Sig("exp_warning", "high", current_price)
            ELSE IF Val(exp_date) - now <= 3
                 THEN Sig("exp_warning", "medium", current_price)
            ELSE <<>>
    IN [trade |-> trade,
        ret |-> target_near \o stop_near \o trailing \o breakeven \o time_exit
                \o exp_warning]

\* TRAINING_DATA_ENABLED: the import of training_data succeeds in this repository
TRAINING_DATA_ENABLED == TRUE

\* _record_to_training_data(trade): the training data after the call.  A record
\* is appended unless the trade counts as incomplete (exit_time or exit_price
\* falsy: None, or a price of 0) or building the SignalOutcome raises
\* (StrategyType(trade.strategy.upper()) on an unknown strategy).
record_to_training_data(tr, trade) ==
    IF ~TRAINING_DATA_ENABLED THEN tr
    ELSE IF trade.exit_time = None \/ trade.exit_price = None
            \/ Val(trade.exit_price) = 0 THEN tr
    ELSE IF trade.strategy \notin StrategyType THEN tr
    ELSE
    LET exp_date == strptime(trade.expiration)
        dte == IF exp_date = None THEN 7 ELSE Val(exp_date) - trade.entry_time
        pnl == Val(trade.profit_loss_percent)
        manual_outcome ==
            IF RatAbsLT(pnl, 5) THEN "breakeven"
            ELSE IF Val(trade.profit_loss) > 0 THEN "win" ELSE "loss"
        outcome_str ==
            IF trade.outcome = HIT_TARGET THEN "win"
            ELSE IF trade.outcome \in {HIT_STOP, EXPIRED_WORTHLESS} THEN "loss"
            ELSE manual_outcome
        hit_target ==
            IF trade.outcome = HIT_TARGET THEN TRUE
            ELSE IF trade.outcome \in {HIT_STOP, EXPIRED_WORTHLESS} THEN FALSE
            ELSE ~RatAbsLT(pnl, 5) /\ Val(trade.profit_loss) > 0
        hit_stop ==
            IF trade.outcome = HIT_TARGET THEN FALSE
            ELSE IF trade.outcome = HIT_STOP THEN TRUE
            ELSE IF trade.outcome = EXPIRED_WORTHLESS THEN FALSE
            ELSE ~RatAbsLT(pnl, 5) /\ Val(trade.profit_loss) < 0
        exit_reason ==
            IF trade.notes = "target_hit" THEN "target"
            ELSE IF trade.notes = "stop_hit" THEN "stop"
            ELSE IF trade.notes = "trailing_stop" THEN "trailing_stop"
            ELSE IF trade.notes = "Time-based exit" THEN "time"
            ELSE IF trade.notes = "Expired" THEN "expiration"
            ELSE "manual"
    IN Append(tr, [signal_id |-> trade.signal_id, timestamp |-> Val(trade.exit_time),
                   dte |-> dte, exit_price |-> Val(trade.exit_price),
                   profit_loss_percent |-> pnl, exit_reason |-> exit_reason,
                   outcome |-> outcome_str, hit_target |-> hit_target,
                   hit_stop |-> hit_stop])

\* datetime.isoformat(): the string naming day d
isoformat(d) == <<"iso", d>>

\* the dict save_trades builds for one trade
trade_dict(trade) ==
    [trade EXCEPT
        !.entry_time = isoformat(@),
        !.exit_time = IF @ = None THEN None ELSE Some(isoformat(Val(@))),
        !.last_update = IF @ = None THEN None ELSE Some(isoformat(Val(@))),
        !.exit_signals = [k \in DOMAIN @ |-> [dict |-> @[k]]]]

\* save_trades(): the file after the call.  json.dump raises TypeError on a
\* date object after open(..., 'w') has truncated the file; the exception is
\* logged and swallowed, and the file is left holding a partial document.
\* A trade that load_trades built still holds last_update as the stored
\* string and exit_signals as dicts: .isoformat() and .trade_id then raise
\* AttributeError before the file is opened, and the file stays as it was.
save_trades(ts, fl) ==
    IF \E i \in DOMAIN ts :
          \/ Len(ts[i].last_update) = 2
          \/ \E k \in DOMAIN ts[i].exit_signals : "dict" \in DOMAIN ts[i].exit_signals[k]
    THEN fl
    ELSE IF \A i \in DOMAIN ts : ts[i].expiration.kind # "date"
    THEN [state |-> "ok", data |-> [i \in DOMAIN ts |-> trade_dict(ts[i])]]
    ELSE [state |-> "corrupt", data |-> <<>>]

\* load_trades(): the trades a new engine holds.  entry_time, exit_time and
\* outcome are converted back; every other field is passed to PaperTrade as
\* json.load returned it: exit_signals stay dicts, and last_update stays the
\* stored string, held here as the pair isoformat(d) in place of Some(d).
\* A missing file, or one json.load rejects, gives [].
load_trades(fl) ==
    IF fl.state # "ok" THEN <<>>
    ELSE [i \in DOMAIN fl.data |->
            [fl.data[i] EXCEPT
                !.entry_time = @[2],
                !.exit_time = IF @ = None THEN None ELSE Some(Val(@)[2]),
                !.last_update = IF @ = None THEN None ELSE Val(@)]]

\* update_trade, lines 257-259: the high-water mark
track_highest(highest_price, current_price) ==
    IF highest_price = None \/ current_price > Val(highest_price)
    THEN Some(current_price) ELSE highest_price

\* variant of auto_close: a trade that reaches its target or stop is closed at
\* the observed price instead of the target or stop price
auto_close_at_observed(trade, current_price, current_time) ==
    IF current_price >= trade.target_price
    THEN [trade EXCEPT
            !.outcome = HIT_TARGET,
            !.exit_price = Some(current_price),
            !.exit_time = Some(current_time),
            !.profit_loss = Some(current_price - trade.entry_price),
            !.profit_loss_percent =
                Some(Percent(current_price - trade.entry_price, trade.entry_price)),
            !.notes = "target_hit"]
    ELSE IF current_price <= trade.stop_loss
    THEN [trade EXCEPT
            !.outcome = HIT_STOP,
            !.exit_price = Some(current_price),
            !.exit_time = Some(current_time),
            !.profit_loss = Some(current_price - trade.entry_price),
            !.profit_loss_percent =
                Some(Percent(current_price - trade.entry_price, trade.entry_price)),
            !.notes = "stop_hit"]
    ELSE IF /\ strptime(trade.expiration) # None
            /\ current_time >= Val(strptime(trade.expiration))
    THEN [trade EXCEPT
            !.outcome = EXPIRED_WORTHLESS,
            !.exit_price = Some(0),
            !.exit_time = Some(current_time),
            !.profit_loss = Some(-trade.entry_price),
            !.profit_loss_percent = Some(Frac(-100, 1)),
            !.notes = "Expired"]
    ELSE trade

\* variant of auto_close: the stop rule is tried before the target rule
auto_close_stop_first(trade, current_price, current_time) ==
    IF current_price <= trade.stop_loss
    THEN [trade EXCEPT
            !.outcome = HIT_STOP,
            !.exit_price = Some(trade.stop_loss),
            !.exit_time = Some(current_time),
            !.profit_loss = Some(trade.stop_loss - trade.entry_price),
            !.profit_loss_percent =
                Some(Percent(trade.stop_loss - trade.entry_price, trade.entry_price)),
            !.notes = "stop_hit"]
    ELSE IF current_price >= trade.target_price
    THEN [trade EXCEPT
            !.outcome = HIT_TARGET,
            !.exit_price = Some(trade.target_price),
            !.exit_time = Some(current_time),
            !.profit_loss = Some(trade.target_price - trade.entry_price),
            !.profit_loss_percent =
                Some(Percent(trade.target_price - trade.entry_price, trade.entry_price)),
            !.notes = "target_hit"]
    ELSE IF /\ strptime(trade.expiration) # None
            /\ current_time >= Val(strptime(trade.expiration))
    THEN [trade EXCEPT
            !.outcome = EXPIRED_WORTHLESS,
            !.exit_price = Some(0),
            !.exit_time = Some(current_time),
            !.profit_loss = Some(-trade.entry_price),
            !.profit_loss_percent = Some(Frac(-100, 1)),
            !.notes = "Expired"]
    ELSE trade

\* update_trade, lines 268-319: the auto-close rules, tried in the order
\* target, stop, expiration
auto_close(trade, current_price, current_time) ==
    IF current_price >= trade.target_price
    THEN [trade EXCEPT
            !.outcome = HIT_TARGET,
            !.exit_price = Some(trade.target_price),
            !.exit_time = Some(current_time),
            !.profit_loss = Some(trade.target_price - trade.entry_price),
            !.profit_loss_percent =
                Some(Percent(trade.target_price - trade.entry_price, trade.entry_price)),
            !.notes = "target_hit"]
    ELSE IF current_price <= trade.stop_loss
    THEN [trade EXCEPT
            !.outcome = HIT_STOP,
            !.exit_price = Some(trade.stop_loss),
            !.exit_time = Some(current_time),
            !.profit_loss = Some(trade.stop_loss - trade.entry_price),
            !.profit_loss_percent =
                Some(Percent(trade.stop_loss - trade.entry_price, trade.entry_price)),
            !.notes = "stop_hit"]
    ELSE IF /\ strptime(trade.expiration) # None
            /\ current_time >= Val(strptime(trade.expiration))
    THEN [trade EXCEPT
            !.outcome = EXPIRED_WORTHLESS,
            !.exit_price = Some(0),
            !.exit_time = Some(current_time),
            !.profit_loss = Some(-trade.entry_price),
            !.profit_loss_percent = Some(Frac(-100, 1)),
            !.notes = "Expired"]
    ELSE trade

\* variant of mark_price: a high-urgency exit signal closes the trade
mark_price_acting_on_signals(trade, current_price, current_time, now) ==
    LET t1 == [trade EXCEPT
                !.current_price = Some(current_price),
                !.last_update = Some(current_time),
                !.highest_price = track_highest(@, current_price),
                !.profit_loss = Some(current_price - trade.entry_price),
                !.profit_loss_percent =
                    Some(Percent(current_price - trade.entry_price, trade.entry_price))]
        r == check_exit_signals(t1, now)
        urgent == \E k \in DOMAIN r.ret : r.ret[k].urgency = "high"
    IN [r.trade EXCEPT !.exit_signals = r.ret,
                       !.outcome = IF urgent THEN CLOSED_MANUAL ELSE @]

\* update_trade, lines 253-266: price, high-water mark, P/L and the advisory
\* exit signals of a PENDING trade
mark_price(trade, current_price, current_time, now) ==
    LET t1 == [trade EXCEPT
                !.current_price = Some(current_price),
                !.last_update = Some(current_time),
                !.highest_price = track_highest(@, current_price),
                !.profit_loss = Some(current_price - trade.entry_price),
                !.profit_loss_percent =
                    Some(Percent(current_price - trade.entry_price, trade.entry_price))]
        r == check_exit_signals(t1, now)
    IN [r.trade EXCEPT !.exit_signals = r.ret]

\* variant of update_trade_skips: closed trades are updated like PENDING ones
update_trade_never_skips(trade) == FALSE

\* update_trade, lines 249-251: a trade that is not PENDING is returned as it is
update_trade_skips(trade) == trade.outcome # PENDING

\* update_trade(signal_id, current_price, current_time): the engine's state
\* after the call and the value returned (None, or the trade)
update_trade(ts, fl, tr, signal_id, current_price, current_time, now) ==
    LET i == find_trade(ts, signal_id) IN
    IF i = 0 THEN [trades |-> ts, file |-> fl, training |-> tr, ret |-> None]
    ELSE IF update_trade_skips(ts[i])
    THEN [trades |-> ts, file |-> fl, training |-> tr, ret |-> Some(ts[i])]
    ELSE
    LET t1 == mark_price(ts[i], current_price, current_time, now)
        t2 == auto_close(t1, current_price, current_time)
        ts2 == [ts EXCEPT ![i] = t2]
    IN [trades |-> ts2,
        file |-> save_trades(ts2, fl),
        training |-> IF t2.outcome # PENDING
                     THEN record_to_training_data(tr, t2) ELSE tr,
        ret |-> Some(t2)]

\* variant of close_outcome: the breakeven band is 2% instead of 5%
close_outcome_two_percent(profit_loss, profit_loss_percent) ==
    IF RatAbsLT(profit_loss_percent, 2) THEN BREAKEVEN
    ELSE IF profit_loss > 0 THEN HIT_TARGET
    ELSE HIT_STOP

\* close_trade, lines 588-594: the outcome of a manual close
close_outcome(profit_loss, profit_loss_percent) ==
    IF RatAbsLT(profit_loss_percent, 5) THEN BREAKEVEN
    ELSE IF profit_loss > 0 THEN HIT_TARGET
    ELSE HIT_STOP

\* close_trade, line 579: a trade that is not PENDING is returned as it is
close_trade_skips(trade) == trade.outcome # PENDING

\* close_trade(signal_id, exit_price, reason), with datetime.now() = now
close_trade(ts, fl, tr, signal_id, exit_price, reason, now) ==
    LET i == find_trade(ts, signal_id) IN
    IF i = 0 THEN [trades |-> ts, file |-> fl, training |-> tr, ret |-> None]
    ELSE IF close_trade_skips(ts[i])
    THEN [trades |-> ts, file |-> fl, training |-> tr, ret |-> Some(ts[i])]
    ELSE
    LET pl == exit_price - ts[i].entry_price
        pct == Percent(pl, ts[i].entry_price)
        t2 == [ts[i] EXCEPT
                !.exit_price = Some(exit_price),
                !.exit_time = Some(now),
                !.profit_loss = Some(pl),
                !.profit_loss_percent = Some(pct),
                !.notes = reason,
                !.outcome = close_outcome(pl, pct)]
        ts2 == [ts EXCEPT ![i] = t2]
    IN [trades |-> ts2,
        file |-> save_trades(ts2, fl),
        training |-> record_to_training_data(tr, t2),
        ret |-> Some(t2)]

\* close_trade_with_analysis, lines 293-299: the outcome it assigns
analysis_outcome(profit_loss, profit_loss_percent, exit_reason) ==
    IF RatAbsLT(profit_loss_percent, 2) THEN BREAKEVEN
    ELSE IF profit_loss > 0
    THEN (IF exit_reason = "target" THEN HIT_TARGET ELSE CLOSED_MANUAL)
    ELSE (IF exit_reason = "stop" THEN HIT_STOP ELSE CLOSED_MANUAL)

\* EnhancedPaperTradingEngine.close_trade_with_analysis(signal_id, exit_price,
\* exit_reason), with datetime.now() = now.  It looks the trade up and closes
\* it whatever its outcome is; ret is its "success" flag.
close_trade_with_analysis(ts, fl, signal_id, exit_price, exit_reason, now) ==
    LET i == find_trade(ts, signal_id) IN
    IF i = 0 THEN [trades |-> ts, file |-> fl, ret |-> FALSE]
    ELSE
    LET pl == exit_price - ts[i].entry_price
        pct == Percent(pl, ts[i].entry_price)
        t2 == [ts[i] EXCEPT
                !.exit_price = Some(exit_price),
                !.exit_time = Some(now),
                !.profit_loss = Some(pl),
                !.profit_loss_percent = Some(pct),
                !.outcome = analysis_outcome(pl, pct, exit_reason)]
        ts2 == [ts EXCEPT ![i] = t2]
    IN [trades |-> ts2, file |-> save_trades(ts2, fl), ret |-> TRUE]

\* add_signal(signal): signal.contract.expiration is a date object
add_signal(ts, fl, signal) ==
    LET trade == PaperTrade(signal.signal_id, signal.strategy, signal.entry_price,
                            signal.timestamp, signal.target_price, signal.stop_loss,
                            signal.expiration, "")
        ts2 == Append(ts, trade)
    IN [trades |-> ts2, file |-> save_trades(ts2, fl), ret |-> trade]

\* the manual-add endpoint: PaperTrade(...) with the caller's expiration string
add_manual_trade(ts, fl, signal_id, strategy, entry, entry_time, target, stop, expiration) ==
    LET trade == PaperTrade(signal_id, strategy, entry, entry_time, target, stop,
                            expiration, "Manually added trade")
        ts2 == Append(ts, trade)
    IN [trades |-> ts2, file |-> save_trades(ts2, fl), ret |-> trade]

\* the OptionsSignal values offered to add_signal
Signals ==
    { [signal_id |-> id, strategy |-> st, entry_price |-> e, timestamp |-> 0,
       target_price |-> b[1], stop_loss |-> b[2], expiration |-> ExpDate(d)] :
      id \in SignalIds, st \in Strategies, e \in EntryPrices, b \in SignalBrackets,
      d \in ExpirationDays }

(***************************** actions *************************************)
Max(a, b) == IF a >= b THEN a ELSE b

\* fed_max after price p was offered to record i (0: no such record);
\* only a call made while the record is open counts
Feed(i, open, p) ==
    IF i # 0 /\ open THEN [fed_max EXCEPT ![i] = Max(@, p)] ELSE fed_max

AddSignal ==
    /\ engine = "paper"
    /\ Len(trades) < MaxTrades
    /\ \E signal \in Signals :
         LET r == add_signal(trades, file, signal) IN
         /\ trades' = r.trades
         /\ file' = r.file
         /\ fed_max' = Append(fed_max, signal.entry_price)
    /\ UNCHANGED <<engine, call, training, positions, positions_file>>

AddManualTrade ==
    /\ engine = "paper"
    /\ Len(trades) < MaxTrades
    /\ \E id \in ManualIds, st \in Strategies, e \in EntryPrices, b \in Brackets,
          x \in {ExpStr(d) : d \in ExpirationDays} \cup {ExpBad} :
         LET r == add_manual_trade(trades, file, id, st, e, 0, b[1], b[2], x) IN
         /\ trades' = r.trades
         /\ file' = r.file
         /\ fed_max' = Append(fed_max, e)
    /\ UNCHANGED <<engine, call, training, positions, positions_file>>

UpdateTrade ==
    /\ engine = "paper"
    /\ \E id \in AllIds, p \in Prices, t \in Times :
         LET r == update_trade(trades, file, training, id, p, t, t)
             i == find_trade(trades, id)
         IN
         /\ trades' = r.trades
         /\ file' = r.file
         /\ training' = r.training
         /\ fed_max' = Feed(i, i # 0 /\ trades[i].outcome = PENDING, p)
    /\ UNCHANGED <<engine, call, positions, positions_file>>

CloseTrade ==
    /\ engine = "paper"
    /\ \E id \in AllIds, p \in ClosePrices, now \in CloseTimes :
         LET r == close_trade(trades, file, training, id, p, "Manual close", now) IN
         /\ trades' = r.trades
         /\ file' = r.file
         /\ training' = r.training
    /\ UNCHANGED <<engine, call, positions, positions_file, fed_max>>

CloseTradeWithAnalysis ==
    /\ engine = "paper"
    /\ \E id \in AllIds, p \in AnalysisPrices, reason \in {"target", "stop", "manual"},
          now \in CloseTimes :
         LET r == close_trade_with_analysis(trades, file, id, p, reason, now) IN
         /\ trades' = r.trades
         /\ file' = r.file
    /\ UNCHANGED <<engine, call, training, positions, positions_file, fed_max>>

(***************************************************************************)
(*                          PositionTracker                                *)
(***************************************************************************)
\* inputs of the tracker's endpoints
PositionSignalIds == {"sig_a"}
CloseReasons == {"Manual close", "Target hit"}
PositionBrackets == {<<120, 90>>}
\* position ids the callers ask for: the tracked one and one never issued
PositionIds == {<<"sig_a", 0>>, <<"sig_b", 0>>}

\* f"{symbol}_{signal_id}_{datetime.now():%Y%m%d%H%M%S}"
make_position_id(signal_id, now) == <<signal_id, now>>

\* Position(...): the dataclass as add_position fills it
Position(signal_id, strategy, entry, target, stop, expiration, contracts, now) ==
    [position_id |-> make_position_id(signal_id, now), signal_id |-> signal_id,
     strategy |-> strategy, entry_price |-> entry, entry_time |-> now,
     contracts_bought |-> contracts,
     target_price |-> target, stop_loss |-> stop, expiration |-> expiration,
     status |-> "active", current_price |-> Some(entry), last_update |-> Some(now),
     exit_price |-> None, exit_time |-> None, exit_reason |-> None,
     profit_loss |-> None, profit_loss_percent |-> None,
     highest_price |-> Some(entry), breakeven_moved |-> FALSE,
     partial_exit_taken |-> FALSE]

\* _get_position(position_id): the index of the first match, 0 for None
get_position(ps, position_id) ==
    IF \E i \in DOMAIN ps : ps[i].position_id = position_id
    THEN CHOOSE i \in DOMAIN ps :
            /\ ps[i].position_id = position_id
            /\ \A j \in DOMAIN ps : ps[j].position_id = position_id => i <= j
    ELSE 0

\* the dict save_positions builds for one position
position_dict(pos) ==
    [pos EXCEPT
        !.entry_time = isoformat(@),
        !.last_update = IF @ = None THEN None ELSE Some(isoformat(Val(@))),
        !.exit_time = IF @ = None THEN None ELSE Some(isoformat(Val(@)))]

\* save_positions(): the file after the call
save_positions(ps) ==
    [state |-> "ok", data |-> [i \in DOMAIN ps |-> position_dict(ps[i])]]

\* add_position(...), with datetime.now() = now
add_position(ps, signal_id, strategy, entry, target, stop, expiration, contracts, now) ==
    LET position == Position(signal_id, strategy, entry, target, stop, expiration,
                             contracts, now)
        ps2 == Append(ps, position)
    IN [positions |-> ps2, file |-> save_positions(ps2), ret |-> position]

\* variant of position_track_highest: the mark follows the last price
position_track_last(highest_price, current_price) == Some(current_price)

\* update_position, lines 241-243: the high-water mark
position_track_highest(highest_price, current_price) ==
    IF highest_price = None \/ current_price > Val(highest_price)
    THEN Some(current_price) ELSE highest_price

\* variant of position_profit_loss: the number of contracts is left out
position_profit_loss_one_contract(price, entry_price, contracts_bought) ==
    (price - entry_price) * 100

\* update_position, line 246 and close_position, line 402
position_profit_loss(price, entry_price, contracts_bought) ==
    (price - entry_price) * 100 * contracts_bought

\* update_position, lines 235-236: a position that is not active is returned as it is
update_position_skips(position) == position.status # "active"

\* update_position(position_id, current_price), with datetime.now() = now
update_position(ps, fl, position_id, current_price, now) ==
    LET i == get_position(ps, position_id) IN
    IF i = 0 THEN [positions |-> ps, file |-> fl, ret |-> None]
    ELSE IF update_position_skips(ps[i])
    THEN [positions |-> ps, file |-> fl, ret |-> Some(ps[i])]
    ELSE
    LET p2 == [ps[i] EXCEPT
                !.current_price = Some(current_price),
                !.last_update = Some(now),
                !.highest_price = position_track_highest(@, current_price),
                !.profit_loss =
                    Some(position_profit_loss(current_price, ps[i].entry_price,
                                              ps[i].contracts_bought)),
                !.profit_loss_percent =
                    Some(Percent(current_price - ps[i].entry_price, ps[i].entry_price))]
        ps2 == [ps EXCEPT ![i] = p2]
    IN [positions |-> ps2, file |-> save_positions(ps2), ret |-> Some(p2)]

\* close_position(position_id, exit_price, exit_reason), with datetime.now() = now.
\* The status of the position found is not looked at.
close_position(ps, fl, position_id, exit_price, exit_reason, now) ==
    LET i == get_position(ps, position_id) IN
    IF i = 0 THEN [positions |-> ps, file |-> fl, ret |-> None]
    ELSE
    LET p2 == [ps[i] EXCEPT
                !.status = "closed",
                !.exit_price = Some(exit_price),
                !.exit_time = Some(now),
                !.exit_reason = Some(exit_reason),
                !.profit_loss =
                    Some(position_profit_loss(exit_price, ps[i].entry_price,
                                              ps[i].contracts_bought)),
                !.profit_loss_percent =
                    Some(Percent(exit_price - ps[i].entry_price, ps[i].entry_price))]
        ps2 == [ps EXCEPT ![i] = p2]
    IN [positions |-> ps2, file |-> save_positions(ps2), ret |-> Some(p2)]

\* ExitSignal(...) of position_tracker.py (the message text is left out)
PositionExitSignal(position_id, reason, urgency, current_price, suggested, pnl, now) ==
    [position_id |-> position_id, reason |-> reason, urgency |-> urgency,
     current_price |-> current_price, suggested_exit_price |-> suggested,
     profit_loss_percent |-> pnl, timestamp |-> now]

\* check_exit_signals, line 268: the price is at or above the target
position_target_hit(current_price, target_price) == current_price >= target_price

\* check_exit_signals, line 280: the price is at or below the stop
position_stop_hit(current_price, stop_loss) == current_price <= stop_loss

\* check_exit_signals, lines 292-294: up 15% or more, and the price is 15% or
\* more below a (truthy) highest price
position_trailing_stop_due(pnl_percent, highest_price, current_price) ==
    /\ RatGE(pnl_percent, 15)
    /\ highest_price # None
    /\ Val(highest_price) # 0
    /\ 100 * current_price <= 85 * Val(highest_price)

\* check_exit_signals, line 306: up 10% or more and the stop not yet flagged
\* as moved to breakeven
position_breakeven_due(pnl_percent, breakeven_moved) ==
    RatGE(pnl_percent, 10) /\ ~breakeven_moved

\* PositionTracker.check_exit_signals(position_id), with datetime.now() = now:
\* the tracker's positions after the call and the list returned
position_check_exit_signals(ps, position_id, now) ==
    LET i == get_position(ps, position_id) IN
    IF i = 0 \/ ps[i].status # "active" THEN [positions |-> ps, ret |-> <<>>]
    ELSE
    LET position == ps[i]
        current_price ==
            IF position.current_price # None /\ Val(position.current_price) # 0
            THEN Val(position.current_price) ELSE position.entry_price
        pnl_percent ==
            IF position.profit_loss_percent # None
            THEN Val(position.profit_loss_percent) ELSE Frac(0, 1)
        Sig(reason, urgency, suggested) ==
            <<PositionExitSignal(position_id, reason, urgency, current_price,
                                 suggested, pnl_percent, now)>>
        target_hit ==
            IF position_target_hit(current_price, position.target_price)
            THEN Sig("target_hit", "high", current_price) ELSE <<>>
        stop_hit ==
            IF position_stop_hit(current_price, position.stop_loss)
            THEN Sig("stop_hit", "high", current_price) ELSE <<>>
        trailing ==
            IF position_trailing_stop_due(pnl_percent, position.highest_price, current_price)
            THEN Sig("trailing_stop", "high", current_price) ELSE <<>>
        breakeven ==
            IF position_breakeven_due(pnl_percent, position.breakeven_moved)
            THEN Sig("breakeven", "medium", position.entry_price) ELSE <<>>
        time_held == now - position.entry_time
        time_exit ==
            IF position.strategy = "SCALPING"
            THEN IF time_held * 1440 > 5 /\ RatAbsLT(pnl_percent, 5)
                 THEN Sig("time_exit", "medium", current_price) ELSE <<>>
            ELSE IF position.strategy = "SWING" /\ time_held > 5
                 THEN Sig("time_exit", "medium", current_price) ELSE <<>>
        exp_date == strptime(position.expiration)
        exp_warning ==
            IF exp_date = None THEN <<>>
            ELSE IF Val(exp_date) - now <= 1
                 THEN Sig("exp_warning", "high", current_price)
            ELSE IF Val(exp_date) - now <= 3
                 THEN Sig("exp_warning", "medium", current_price)
            ELSE <<>>
    IN [positions |-> ps,
        ret |-> target_hit \o stop_hit \o trailing \o breakeven \o time_exit
                \o exp_warning]

AddPosition ==
    /\ engine = "tracker"
    /\ Len(positions) < MaxPositions
    /\ \E id \in PositionSignalIds, st \in Strategies, e \in EntryPrices,
          b \in PositionBrackets, c \in 1..MaxContracts,
          x \in {ExpStr(d) : d \in ExpirationDays} \cup {ExpBad} :
         LET r == add_position(positions, id, st, e, b[1], b[2], x, c, 0) IN
         /\ positions' = r.positions
         /\ positions_file' = r.file
         /\ fed_max' = Append(fed_max, e)
    /\ UNCHANGED <<engine, call, trades, file, training>>

UpdatePosition ==
    /\ engine = "tracker"
    /\ \E id \in PositionIds, p \in Prices, now \in Times :
         LET r == update_position(positions, positions_file, id, p, now)
             i == get_position(positions, id)
         IN
         /\ positions' = r.positions
         /\ positions_file' = r.file
         /\ fed_max' = Feed(i, i # 0 /\ positions[i].status = "active", p)
    /\ UNCHANGED <<engine, call, trades, file, training>>

CheckExitSignals ==
    /\ engine = "tracker"
    /\ \E id \in PositionIds, now \in Times :
         LET r == position_check_exit_signals(positions, id, now) IN
         positions' = r.positions
    /\ UNCHANGED <<engine, call, trades, file, training, positions_file, fed_max>>

ClosePosition ==
    /\ engine = "tracker"
    /\ \E id \in PositionIds, p \in ClosePrices, reason \in CloseReasons, now \in CloseTimes :
         LET r == close_position(positions, positions_file, id, p, reason, now) IN
         /\ positions' = r.positions
         /\ positions_file' = r.file
    /\ UNCHANGED <<engine, call, trades, file, training, fed_max>>

(***************************************************************************)
(*                 RiskManager (src/options_strategies.py)                 *)
(*                                                                         *)
(* Dollar amounts and prices are integers.  A stop price is returned in    *)
(* hundredths of a price tick, so that 0.75 * h and 0.95 * e are exact.    *)
(***************************************************************************)
\* no stateless call is being evaluated
NoCall == [op |-> "none"]

\* RiskManager.MAX_DAILY_LOSS = 0.03
MAX_DAILY_LOSS == [num |-> 3, den |-> 100]
\* RiskManager.MAX_CONCURRENT_TRADES
MAX_CONCURRENT_TRADES == 3

\* arguments offered to RiskManager
DailyPnls == {-301, -300, -299, -151, -150, 0}
AccountBalances == {10000, 5000}
ActiveTrades == {0, 2, 3, 4}
RiskEntryPrices == {100}
HighestPrices == {90, 100, 101, 126, 127, 140}
\* trail_percent, in percent: the default 0.25
DefaultTrailPercent == {25}

\* variant of should_take_trade: a daily loss of exactly the limit is rejected too
should_take_trade_at_limit(current_daily_pnl, account_balance, active_trades) ==
    IF current_daily_pnl * MAX_DAILY_LOSS.den <= -(account_balance * MAX_DAILY_LOSS.num)
    THEN <<FALSE, "Daily loss limit reached">>
    ELSE IF active_trades >= MAX_CONCURRENT_TRADES
    THEN <<FALSE, "Max concurrent trades reached">>
    ELSE <<TRUE, "OK">>

\* RiskManager.should_take_trade: <<can_trade, reason>>
should_take_trade(current_daily_pnl, account_balance, active_trades) ==
    IF current_daily_pnl * MAX_DAILY_LOSS.den < -(account_balance * MAX_DAILY_LOSS.num)
    THEN <<FALSE, "Daily loss limit reached">>
    ELSE IF active_trades >= MAX_CONCURRENT_TRADES
    THEN <<FALSE, "Max concurrent trades reached">>
    ELSE <<TRUE, "OK">>

\* variant of calculate_trailing_stop: no floor at the original stop
calculate_trailing_stop_no_floor(entry_price, current_price, highest_price, trail_percent) ==
    IF highest_price <= entry_price THEN entry_price * 95
    ELSE highest_price * (100 - trail_percent)

\* RiskManager.calculate_trailing_stop, in hundredths of a tick
calculate_trailing_stop(entry_price, current_price, highest_price, trail_percent) ==
    IF highest_price <= entry_price THEN entry_price * 95
    ELSE LET trailing_stop == highest_price * (100 - trail_percent)
             original_stop == entry_price * 95
         IN Max(trailing_stop, original_stop)

\* the arguments of the calls RiskInit offers
RiskArguments ==
    [op : {"risk"}, current_daily_pnl : DailyPnls, account_balance : AccountBalances,
     active_trades : ActiveTrades, entry_price : RiskEntryPrices,
     highest_price : HighestPrices, trail_percent : DefaultTrailPercent]

ShouldTakeTrade ==
    /\ engine = "risk"
    /\ call.op = "risk"
    /\ call' = [op |-> "should_take_trade", args |-> call,
                ret |-> should_take_trade(call.current_daily_pnl, call.account_balance,
                                          call.active_trades)]
    /\ UNCHANGED <<engine, trades, file, training, positions, positions_file, fed_max>>

CalculateTrailingStop ==
    /\ engine = "risk"
    /\ call.op = "risk"
    /\ call' = [op |-> "calculate_trailing_stop", args |-> call,
                ret |-> calculate_trailing_stop(call.entry_price, call.highest_price,
                                                call.highest_price, call.trail_percent)]
    /\ UNCHANGED <<engine, trades, file, training, positions, positions_file, fed_max>>

(***************************************************************************)
(*     Strategy evaluators (src/options_strategies.py,                     *)
(*     src/swing_trading_strategy.py, src/improved_filters.py) and the     *)
(*     detector's unified signal (src/options_signal_detector.py)          *)
(*                                                                         *)
(* Option prices are integers in cents; entry, target and stop of a signal *)
(* are in hundredths of a cent, so that ask * 1.15 and ask * 0.95 are      *)
(* exact.  Momentum is in basis points (0.03 = 300), delta and implied     *)
(* volatility in hundredths, confidence in ten-thousandths (0.85 = 8500).  *)
(*                                                                         *)
(* The evaluators read the wall clock inside their bodies                  *)
(* (datetime.now()); here the clock reading is the parameter `now`, a     *)
(* record [day, minute] in exchange-local time.                            *)
(*                                                                         *)
(* A price history (a numpy array) is represented by its length and by     *)
(* the values the static, clock-free functions of TechnicalAnalysis        *)
(* compute from it: momentum over 1, 3 and 5 bars, RSI(14), the MACD       *)
(* triple and the breakout level.                                          *)
(***************************************************************************)
\* SignalAction
BUY_CALL == "BUY_CALL"
BUY_PUT == "BUY_PUT"
FOLLOW_FLOW == "FOLLOW_FLOW"
SignalAction == {"BUY", "SELL", "BUY_CALL", "BUY_PUT", "SELL_CALL", "SELL_PUT",
                 "FOLLOW_FLOW", "WAIT"}

\* str.lower() on the value of a SignalAction
lower ==
    [a \in SignalAction |->
        CASE a = "BUY" -> "buy"
          [] a = "SELL" -> "sell"
          [] a = "BUY_CALL" -> "buy_call"
          [] a = "BUY_PUT" -> "buy_put"
          [] a = "SELL_CALL" -> "sell_call"
          [] a = "SELL_PUT" -> "sell_put"
          [] a = "FOLLOW_FLOW" -> "follow_flow"
          [] a = "WAIT" -> "wait"]

Min(a, b) == IF a <= b THEN a ELSE b

\* OptionPricing as the market-data parsers build it: mark is (bid + ask) / 2
\* when both are quoted and the last trade price otherwise
Quoted == [bid |-> 190, ask |-> 200, last |-> 195, mark |-> 195]
Unquoted == [bid |-> 0, ask |-> 0, last |-> 120, mark |-> 120]
\* a quote 8.00 wide on a contract whose mark, a field of its own, is 30.00
WideSpread == [bid |-> 100, ask |-> 900, last |-> 3000, mark |-> 3000]
Pricings == {Quoted, Unquoted, WideSpread}
\* Greeks.delta: a call and a put
Deltas == {50, -50}
\* the contract's expiration: the date object OptionContract declares, or a
\* string of the form YYYY-MM-DD
ContractExpirations == {ExpDate(20), ExpStr(20)}

Contracts ==
    [pricing : Pricings,
     volume_metrics : {[volume |-> 1500, open_interest |-> 400, volume_ratio |-> 300]},
     greeks : [delta : Deltas, theta : {-10}],
     iv : {40},
     strike : {10000},
     underlying_price : {10100},
     expiration : ContractExpirations]

\* price histories: a rising one, a falling one and a flat one
Rising ==
    [len |-> 40, momentum_1 |-> 400, momentum_3 |-> 400, momentum_5 |-> 600,
     rsi |-> 35, macd |-> [line |-> 5, signal |-> 3, hist |-> 2],
     breakout_level |-> Some(10050)]
Falling ==
    [len |-> 40, momentum_1 |-> -400, momentum_3 |-> -300, momentum_5 |-> -400,
     rsi |-> 65, macd |-> [line |-> -5, signal |-> -3, hist |-> -2],
     breakout_level |-> None]
Flat ==
    [len |-> 40, momentum_1 |-> 5, momentum_3 |-> 0, momentum_5 |-> 10,
     rsi |-> 50, macd |-> [line |-> 0, signal |-> 0, hist |-> 0],
     breakout_level |-> None]
Histories == {Rising, Falling, Flat}

\* block trades: {'size', 'price', 'side'}, the price in cents
BlockBuy == [size |-> 5000, price |-> 100, side |-> "buy"]
BlockSell == [size |-> 200, price |-> 100, side |-> "sell"]
\* a buy of 20,000 contracts at 1.00: a premium of $2,000,000
BlockBuyLarge == [size |-> 20000, price |-> 100, side |-> "buy"]
BlockTradeLists == {<<>>, <<BlockBuy, BlockBuy, BlockSell, BlockBuy>>,
                    <<BlockBuyLarge, BlockBuyLarge, BlockBuy, BlockBuy>>}

\* readings of the wall clock: inside the morning window, at mid-day, and
\* inside the morning window ten days later
Clocks == {[day |-> 0, minute |-> 600], [day |-> 0, minute |-> 720],
           [day |-> 10, minute |-> 600]}

\* candlestick patterns found on the underlying's chart (levels are prices
\* of the underlying, in cents)
Bullish15m ==
    [signal |-> "bullish", confidence |-> 8000, timeframe |-> "15m",
     target_price |-> Some(10500), stop_loss |-> Some(9900)]
BearishDaily ==
    [signal |-> "bearish", confidence |-> 7000, timeframe |-> "daily",
     target_price |-> None, stop_loss |-> None]
PatternLists == {<<>>, <<Bullish15m, BearishDaily>>}

\* TechnicalAnalysis.momentum(prices, period) for the periods the evaluators use
momentum(prices, period) ==
    IF prices.len < period + 1 THEN 0
    ELSE CASE period = 1 -> prices.momentum_1
           [] period = 3 -> prices.momentum_3
           [] period = 5 -> prices.momentum_5

\* TimeOfDayFilter.is_high_edge_window: 9:30-11:00 or 15:00-16:00
is_high_edge_window(now) ==
    LET in_morning_window == 570 <= now.minute /\ now.minute <= 660
        in_power_hour == 900 <= now.minute /\ now.minute <= 960
    IN in_morning_window \/ in_power_hour

\* (exp_date - datetime.now()).days, exp_date being midnight of day exp_day
days_until(exp_day, now) == exp_day - now.day - (IF now.minute > 0 THEN 1 ELSE 0)

\* OptionPricing.spread
spread(pricing) == pricing.ask - pricing.bid

\* variant of is_liquid: a ceiling of 10.00
is_liquid_ten_dollars(pricing) == spread(pricing) < 1000

\* OptionPricing.is_liquid
is_liquid(pricing) == spread(pricing) < 700

\* VolumeMetrics.is_high_volume (3x) and is_very_high_volume (1.5x)
is_high_volume(volume_metrics) == volume_metrics.volume_ratio >= 300
is_very_high_volume(volume_metrics) == volume_metrics.volume_ratio >= 150

\* ImprovedFilters.check_*: TRUE when the check passes
check_volume_quality(contract) ==
    LET vm == contract.volume_metrics
    IN /\ ~(vm.volume < 100)
       /\ ~(vm.open_interest < 50)
       /\ ~(vm.volume > 10 * (IF vm.open_interest >= 1 THEN vm.open_interest ELSE 1))

check_price_action(contract, price_momentum_1m) ==
    IF contract.greeks.delta > 0
    THEN ~(price_momentum_1m <= 0) /\ ~(price_momentum_1m < 20)
    ELSE ~(price_momentum_1m >= 0) /\ ~(price_momentum_1m > -20)

check_time_to_expiration(contract, now) ==
    LET exp_date == strptime(contract.expiration)
    IN IF exp_date = None THEN TRUE
       ELSE LET days_to_exp == days_until(Val(exp_date), now)
            IN ~(days_to_exp < 1) /\ ~(days_to_exp > 30)

check_implied_volatility(contract) == ~(contract.iv < 15) /\ ~(contract.iv > 200)

check_spread_quality(contract) ==
    LET pricing == contract.pricing
    IN /\ pricing.mark # 0
       /\ ~(spread(pricing) * 100 > 30 * pricing.mark)
       /\ ~(spread(pricing) > 100 /\ pricing.mark < 500)

check_greeks_quality(contract) ==
    /\ ~(Abs(contract.greeks.delta) < 25)
    /\ ~(Abs(contract.greeks.delta) > 85)
    /\ (contract.pricing.mark > 0
          => ~(Abs(contract.greeks.theta) * 100 > 15 * contract.pricing.mark))

check_moneyness(contract) ==
    /\ contract.underlying_price # 0
    /\ ~(Abs(contract.strike - contract.underlying_price) * 10 > contract.underlying_price)

\* ImprovedFilters.apply_all_filters: passes_all
apply_all_filters(contract, price_momentum_1m, now) ==
    /\ check_volume_quality(contract)
    /\ check_price_action(contract, price_momentum_1m)
    /\ check_time_to_expiration(contract, now)
    /\ check_implied_volatility(contract)
    /\ check_spread_quality(contract)
    /\ check_greeks_quality(contract)
    /\ check_moneyness(contract)

\* the fields of ScalpSignal, MomentumSignal and SwingSignal the claims are about
StrategySignal(action, ask, target_pct, stop_pct, conf) ==
    [action |-> action, entry |-> ask * 100, target |-> ask * target_pct,
     stop |-> ask * stop_pct, confidence |-> conf]

\* ScalpingStrategy.detect_signal
ScalpingStrategy_detect_signal(contract, price_history_1m, now) ==
    LET ask == contract.pricing.ask
        abs_delta == Abs(contract.greeks.delta)
        price_momentum_1m == momentum(price_history_1m, 1)
        price_momentum_5m ==
            IF price_history_1m.len >= 6 THEN momentum(price_history_1m, 5) ELSE 0
        strongest ==
            IF Abs(price_momentum_1m) > Abs(price_momentum_5m)
            THEN price_momentum_1m ELSE price_momentum_5m
        rsi_14 == price_history_1m.rsi
    IN IF ~is_high_edge_window(now) THEN None
       ELSE IF ~is_liquid(contract.pricing) THEN None
       ELSE IF contract.volume_metrics.volume < 1000 THEN None
       ELSE IF ~(40 <= abs_delta /\ abs_delta <= 70) THEN None
       ELSE IF ask > 1000 THEN None
       ELSE IF price_history_1m.len < 5 THEN None
       ELSE IF Abs(strongest) < 300 THEN None
       ELSE IF ~apply_all_filters(contract, price_momentum_1m, now) THEN None
       ELSE IF /\ price_momentum_1m > 300
               /\ 30 <= rsi_14 /\ rsi_14 <= 40
               /\ contract.greeks.delta > 0
       THEN Some(StrategySignal(BUY_CALL, ask, 115, 95, 8500))
       ELSE IF /\ price_momentum_1m < -300
               /\ 60 <= rsi_14 /\ rsi_14 <= 70
               /\ contract.greeks.delta < 0
       THEN Some(StrategySignal(BUY_PUT, ask, 115, 95, 8500))
       ELSE IF Abs(price_momentum_5m) > 300
       THEN LET conf == IF Abs(price_momentum_5m) > 500 THEN 8000 ELSE 7500
            IN IF price_momentum_5m > 0 /\ contract.greeks.delta > 0
               THEN Some(StrategySignal(BUY_CALL, ask, 120, 95, conf))
               ELSE IF price_momentum_5m < 0 /\ contract.greeks.delta < 0
               THEN Some(StrategySignal(BUY_PUT, ask, 120, 95, conf))
               ELSE None
       ELSE None

\* variant of MomentumStrategy.detect_signal: refuses outside the high-edge
\* windows, as the scalping evaluator does
MomentumStrategy_detect_signal_strict(contract, price_history_15m, now) ==
    LET ask == contract.pricing.ask
        stock_momentum_15m == momentum(price_history_15m, 1)
        m == price_history_15m.macd
        conf == IF price_history_15m.breakout_level # None THEN 9300 ELSE 9000
    IN IF ~is_high_edge_window(now) THEN None
       ELSE IF price_history_15m.len < 35 THEN None
       ELSE IF stock_momentum_15m > 0 /\ m.line > m.signal /\ m.hist > 0
       THEN Some(StrategySignal(BUY_CALL, ask, 150, 80, conf))
       ELSE None

\* MomentumStrategy.detect_signal: outside the high-edge windows it only logs
MomentumStrategy_detect_signal(contract, price_history_15m, now) ==
    LET ask == contract.pricing.ask
        stock_momentum_15m == momentum(price_history_15m, 1)
        m == price_history_15m.macd
        macd_signal_str ==
            IF m.line > m.signal /\ m.hist > 0 THEN "bullish"
            ELSE IF m.line < m.signal /\ m.hist < 0 THEN "bearish"
            ELSE "neutral"
        \* `if breakout_level:` a level of 0.0 is falsy
        broke == /\ price_history_15m.breakout_level # None
                 /\ Val(price_history_15m.breakout_level) # 0
        conf == IF broke THEN 9300 ELSE 9000
    IN IF price_history_15m.len < 2 THEN None
       ELSE IF Abs(stock_momentum_15m) < 300 THEN None
       ELSE IF ~is_high_volume(contract.volume_metrics) THEN None
       ELSE IF price_history_15m.len < 35 THEN None
       ELSE IF stock_momentum_15m > 0 /\ macd_signal_str = "bullish"
       THEN Some(StrategySignal(BUY_CALL, ask, 150, 80, conf))
       ELSE IF stock_momentum_15m < 0 /\ macd_signal_str = "bearish"
       THEN Some(StrategySignal(BUY_PUT, ask, 150, 80, conf))
       ELSE None

\* VolumeSpikeStrategy._calculate_premium_flow, in dollars
RECURSIVE calculate_premium_flow(_)
calculate_premium_flow(block_trades) ==
    IF block_trades = <<>> THEN 0
    ELSE LET trade == Head(block_trades)
             premium == trade.size * trade.price
         IN (IF trade.side = "buy" THEN premium ELSE -premium)
            + calculate_premium_flow(Tail(block_trades))

\* VolumeSpikeStrategy.detect_signal
VolumeSpikeStrategy_detect_signal(contract, block_trades) ==
    LET large_orders == SelectSeq(block_trades, LAMBDA trade : trade.size >= 100)
        net_premium_flow == calculate_premium_flow(block_trades)
    IN IF ~is_very_high_volume(contract.volume_metrics) THEN None
       ELSE IF Len(large_orders) < 3 THEN None
       ELSE IF Abs(net_premium_flow) < 1000000 THEN None
       ELSE Some([action |-> FOLLOW_FLOW,
                  flow_direction |-> IF net_premium_flow > 0 THEN "bullish" ELSE "bearish",
                  net_premium_flow |-> net_premium_flow,
                  large_orders_count |-> Len(large_orders),
                  confidence |-> IF Abs(net_premium_flow) > 5000000 THEN 9200
                                 ELSE IF Abs(net_premium_flow) > 2000000 THEN 8800
                                 ELSE 8500])

\* SwingTradingStrategy.detect_signal
SwingTradingStrategy_detect_signal(contract, price_history_1h, price_history_daily, now) ==
    LET ask == contract.pricing.ask
        exp_date == strptime(contract.expiration)
        abs_delta == Abs(contract.greeks.delta)
        daily_momentum == momentum(price_history_daily, 3)
        daily_rsi == price_history_daily.rsi
        hourly_momentum == momentum(price_history_1h, 1)
        conf == Min(7500 + Abs(daily_momentum) * 5, 9500)
    IN IF exp_date = None THEN None
       ELSE IF days_until(Val(exp_date), now) < 14 THEN None
       ELSE IF days_until(Val(exp_date), now) > 30 THEN None
       ELSE IF ~(40 <= abs_delta /\ abs_delta <= 60) THEN None
       ELSE IF ask > 500 THEN None
       ELSE IF contract.volume_metrics.volume < 50 THEN None
       ELSE IF contract.volume_metrics.open_interest < 100 THEN None
       ELSE IF price_history_daily.len < 10 THEN None
       ELSE IF /\ daily_momentum > 100
               /\ contract.greeks.delta > 0
               /\ 30 <= daily_rsi /\ daily_rsi <= 45
               /\ price_history_1h.len >= 5
               /\ hourly_momentum > 10
       THEN Some(StrategySignal(BUY_CALL, ask, 130, 85, conf))
       ELSE IF /\ daily_momentum < -100
               /\ contract.greeks.delta < 0
               /\ 55 <= daily_rsi /\ daily_rsi <= 70
               /\ price_history_1h.len >= 5
               /\ hourly_momentum < -10
       THEN Some(StrategySignal(BUY_PUT, ask, 130, 85, conf))
       ELSE None

\* OptionsSignalDetector._convert_to_unified_signal
convert_to_unified_signal(strategy, strategy_signal, contract) ==
    LET directional == strategy \in {"SCALPING", "SWING", "MOMENTUM"}
        entry == IF directional THEN strategy_signal.entry ELSE contract.pricing.ask * 100
        target == IF directional THEN strategy_signal.target ELSE contract.pricing.ask * 130
        stop == IF directional THEN strategy_signal.stop ELSE contract.pricing.ask * 85
        risk == entry - stop
        reward == target - entry
    IN [strategy |-> strategy,
        action |-> strategy_signal.action,
        entry_price |-> entry,
        target_price |-> target,
        stop_loss |-> stop,
        confidence |-> strategy_signal.confidence,
        risk_reward_ratio |-> IF risk > 0 THEN Frac(reward, risk) ELSE Frac(0, 1)]

\* the timeframes of the patterns _enhance_signal_with_patterns keeps
relevant_timeframes(strategy) ==
    CASE strategy = "SCALPING" -> {"15m"}
      [] strategy = "SWING" -> {"daily", "1h"}
      [] strategy = "MOMENTUM" -> {"1h", "15m"}
      [] OTHER -> {"daily", "1h", "15m"}

\* OptionsSignalDetector._enhance_signal_with_patterns
enhance_signal_with_patterns(signal, patterns) ==
    LET relevant_patterns ==
            SelectSeq(patterns, LAMBDA p : p.timeframe \in relevant_timeframes(signal.strategy))
        \* max(relevant_patterns, key=confidence): the first of the most confident
        strongest_index ==
            CHOOSE i \in 1..Len(relevant_patterns) :
                /\ \A j \in 1..Len(relevant_patterns) :
                       relevant_patterns[j].confidence <= relevant_patterns[i].confidence
                /\ \A j \in 1..(i - 1) :
                       relevant_patterns[j].confidence < relevant_patterns[i].confidence
        strongest_pattern == relevant_patterns[strongest_index]
        pattern_confirms ==
            \/ strongest_pattern.signal = "bullish" /\ lower[signal.action] = "buy"
            \/ strongest_pattern.signal = "bearish" /\ lower[signal.action] = "sell"
        boosted == Min(10000, signal.confidence + strongest_pattern.confidence \div 10)
        new_target ==
            IF /\ strongest_pattern.target_price # None
               /\ Val(strongest_pattern.target_price) # 0
               /\ Val(strongest_pattern.target_price) * 100 > signal.entry_price
            THEN Val(strongest_pattern.target_price) * 100 ELSE signal.target_price
        new_stop ==
            IF /\ strongest_pattern.stop_loss # None
               /\ Val(strongest_pattern.stop_loss) # 0
            THEN Val(strongest_pattern.stop_loss) * 100 ELSE signal.stop_loss
    IN IF patterns = <<>> THEN signal
       ELSE IF relevant_patterns = <<>> THEN signal
       ELSE IF pattern_confirms
       THEN [signal EXCEPT !.confidence = boosted,
                           !.target_price = new_target,
                           !.stop_loss = new_stop]
       ELSE [signal EXCEPT !.confidence = Max(5000, signal.confidence - 1000)]

\* one strategy of OptionsSignalDetector._analyze_contract: the enhanced unified
\* signal, if the evaluator returned one
enhanced(strategy, strategy_signal, contract, patterns) ==
    IF strategy_signal = None THEN <<>>
    ELSE <<enhance_signal_with_patterns(
               convert_to_unified_signal(strategy, Val(strategy_signal), contract),
               patterns)>>

\* OptionsSignalDetector._analyze_contract with the scalping, swing and momentum
\* strategies: the list of signals
analyze_contract(contract, price_history, patterns, now) ==
    enhanced("SCALPING", ScalpingStrategy_detect_signal(contract, price_history, now),
             contract, patterns)
    \o enhanced("SWING",
                SwingTradingStrategy_detect_signal(contract, price_history, price_history, now),
                contract, patterns)
    \o enhanced("MOMENTUM", MomentumStrategy_detect_signal(contract, price_history, now),
                contract, patterns)

\* the four evaluators
Evaluators == {"scalping", "momentum", "volume_spike", "swing"}

\* the arguments of the calls StrategyInit offers: no call has been made
StrategyArguments ==
    [op : {"strategy"}, contract : Contracts, price_history : Histories,
     block_trades : BlockTradeLists, now : {[day |-> 0, minute |-> 0]},
     patterns : {<<>>}, ret : {None}, earlier : {None}]

\* an earlier call of an evaluator that the next call is compared with: the
\* one remembered so far, or the call just made
Earlier ==
    {call.earlier} \cup
    (IF call.op \in Evaluators
     THEN {Some([op |-> call.op, now |-> call.now, ret |-> call.ret])} ELSE {})

\* a call with the same contract and history, at clock reading `now`
Called(op, now, patterns, ret, earlier) ==
    [call EXCEPT !.op = op, !.now = now, !.patterns = patterns, !.ret = ret,
                 !.earlier = earlier]

ScalpingDetectSignal ==
    /\ engine = "strategy"
    /\ \E now \in Clocks, earlier \in Earlier :
         call' = Called("scalping", now, <<>>,
                        ScalpingStrategy_detect_signal(call.contract, call.price_history, now),
                        earlier)
    /\ UNCHANGED <<engine, trades, file, training, positions, positions_file, fed_max>>

MomentumDetectSignal ==
    /\ engine = "strategy"
    /\ \E now \in Clocks, earlier \in Earlier :
         call' = Called("momentum", now, <<>>,
                        MomentumStrategy_detect_signal(call.contract, call.price_history, now),
                        earlier)
    /\ UNCHANGED <<engine, trades, file, training, positions, positions_file, fed_max>>

VolumeSpikeDetectSignal ==
    /\ engine = "strategy"
    /\ \E now \in Clocks, earlier \in Earlier :
         call' = Called("volume_spike", now, <<>>,
                        VolumeSpikeStrategy_detect_signal(call.contract, call.block_trades),
                        earlier)
    /\ UNCHANGED <<engine, trades, file, training, positions, positions_file, fed_max>>

SwingDetectSignal ==
    /\ engine = "strategy"
    /\ \E now \in Clocks, earlier \in Earlier :
         call' = Called("swing", now, <<>>,
                        SwingTradingStrategy_detect_signal(call.contract, call.price_history,
                                                           call.price_history, now),
                        earlier)
    /\ UNCHANGED <<engine, trades, file, training, positions, positions_file, fed_max>>

AnalyzeContract ==
    /\ engine = "strategy"
    /\ \E now \in Clocks, patterns \in PatternLists, earlier \in Earlier :
         call' = Called("analyze_contract", now, patterns,
                        analyze_contract(call.contract, call.price_history, patterns, now),
                        earlier)
    /\ UNCHANGED <<engine, trades, file, training, positions, positions_file, fed_max>>

(***************************************************************************)
(*               GreeksCalculator (src/greeks_calculator.py)               *)
(*                                                                         *)
(* Prices are integers in units of 0.0001 dollars (the solver's            *)
(* tolerance), volatilities in thousandths (the initial guess 0.30 is      *)
(* 300, the clamp [0.001, 5.0] is 1..5000).  The Black-Scholes price and   *)
(* the vega of one solver iteration are floating-point values of norm.cdf, *)
(* math.log and math.exp; an iteration takes them from an oracle: any      *)
(* price, and a vega that is below 1e-10 (0) or a whole number of dollars  *)
(* per unit of volatility.  A Greek is "0.0" or "computed".                *)
(***************************************************************************)
\* the arguments offered to GreeksCalculator
GreeksArguments ==
    [op : {"greeks"}, underlying_price : {0, 1000000}, strike_price : {1000000},
     days_to_expiration : {0, 30}, implied_volatility : {0, 300},
     option_price : {50000}, max_iterations : {0, 3}]

\* what one iteration of the solver computes: _black_scholes_price and vega
Oracles == [price : {0, 49700, 50000, 100000}, vega : {0, 1, 20}]

\* math.log(S / K): "none" when it returns, else the exception it raises
log_raises(S, K) ==
    IF K = 0 THEN "ZeroDivisionError"
    ELSE IF (S > 0 /\ K < 0) \/ (S < 0 /\ K > 0) \/ S = 0 THEN "ValueError"
    ELSE "none"

\* GreeksCalculator._calculate_d1_d2: the exception it raises, or "none"
calculate_d1_d2_raises(S, K, T, sigma) ==
    IF T <= 0 \/ sigma <= 0 THEN "none" ELSE log_raises(S, K)

\* GreeksCalculator._calculate_gamma
calculate_gamma(S, sigma, T) ==
    IF T <= 0 \/ sigma <= 0 \/ S <= 0 THEN "0.0" ELSE "computed"

\* GreeksCalculator.calculate_all_greeks; T is days_to_expiration, whose sign
\* is that of time_to_expiration
calculate_all_greeks(underlying_price, strike_price, days_to_expiration, implied_volatility) ==
    LET raises == calculate_d1_d2_raises(underlying_price, strike_price,
                                         days_to_expiration, implied_volatility)
    IN IF days_to_expiration <= 0
       THEN [exception |-> "none", delta |-> "0.0", gamma |-> "0.0", theta |-> "0.0",
             vega |-> "0.0", rho |-> "0.0"]
       ELSE IF raises # "none" THEN [exception |-> raises]
       ELSE [exception |-> "none", delta |-> "computed",
             gamma |-> calculate_gamma(underlying_price, implied_volatility,
                                       days_to_expiration),
             theta |-> "computed", vega |-> "computed", rho |-> "computed"]

\* variant of clamp_iv: only the lower limit
clamp_iv_no_ceiling(iv) == Max(1, iv)

\* iv = max(0.001, min(5.0, iv))
clamp_iv(iv) == Max(1, Min(5000, iv))

\* the loop of calculate_implied_volatility from iteration i on; oracle[i] is
\* what iteration i computes
RECURSIVE newton_raphson(_, _, _, _, _, _, _)
newton_raphson(iv, i, option_price, S, K, T, oracle) ==
    IF i > Len(oracle)
    THEN [exception |-> "none", iv |-> iv, iterations |-> i - 1, converged |-> FALSE]
    ELSE LET raises == calculate_d1_d2_raises(S, K, T, iv)
             vega == IF T <= 0 THEN 0 ELSE oracle[i].vega
             price_diff == option_price - oracle[i].price
             next_iv == clamp_iv(iv + price_diff \div (10 * vega))
         IN IF raises # "none" THEN [exception |-> raises]
            ELSE IF vega = 0
            THEN [exception |-> "none", iv |-> iv, iterations |-> i, converged |-> FALSE]
            ELSE IF price_diff = 0
            THEN [exception |-> "none", iv |-> next_iv, iterations |-> i, converged |-> TRUE]
            ELSE newton_raphson(next_iv, i + 1, option_price, S, K, T, oracle)

\* GreeksCalculator.calculate_implied_volatility; Len(oracle) = max_iterations
calculate_implied_volatility(option_price, underlying_price, strike_price, days_to_expiration, oracle) ==
    newton_raphson(300, 1, option_price, underlying_price, strike_price,
                   days_to_expiration, oracle)

CalculateAllGreeks ==
    /\ engine = "greeks"
    /\ call.op = "greeks"
    /\ call' = [op |-> "calculate_all_greeks", args |-> call,
                ret |-> calculate_all_greeks(call.underlying_price, call.strike_price,
                                             call.days_to_expiration,
                                             call.implied_volatility)]
    /\ UNCHANGED <<engine, trades, file, training, positions, positions_file, fed_max>>

CalculateImpliedVolatility ==
    /\ engine = "greeks"
    /\ call.op = "greeks"
    /\ \E oracle \in [1..call.max_iterations -> Oracles] :
         call' = [op |-> "calculate_implied_volatility", args |-> call, oracle |-> oracle,
                  ret |-> calculate_implied_volatility(call.option_price,
                                                       call.underlying_price,
                                                       call.strike_price,
                                                       call.days_to_expiration, oracle)]
    /\ UNCHANGED <<engine, trades, file, training, positions, positions_file, fed_max>>

(***************************************************************************)
(*   One scan auto-logged to paper trading (src/main_options.py, the       *)
(*   detector's signal ids, src/options_signal_detector.py)                *)
(***************************************************************************)
\* _convert_to_unified_signal: f"{strategy}_{symbol}_{now:%Y%m%d_%H%M%S}"
signal_id_of(strategy, symbol, second) == strategy \o "_" \o symbol \o "_" \o second

\* the signals one scan_for_signals run returns for two contracts of one
\* symbol, both converted within the same second
ScanSignals ==
    { [k \in 1..2 |->
          [signal_id |-> signal_id_of(st[k], "NVDA", "20250106_100000"),
           strategy |-> st[k], entry_price |-> 100, timestamp |-> 0,
           target_price |-> 120, stop_loss |-> 90, expiration |-> ExpDate(6)]] :
      st \in [1..2 -> Strategies] }

\* the scan endpoint: add_signal for every signal of the scan
AutoLogSignals ==
    /\ engine = "scan"
    /\ trades = <<>>
    /\ \E signals \in ScanSignals :
         LET r1 == add_signal(trades, file, signals[1])
             r2 == add_signal(r1.trades, r1.file, signals[2])
         IN /\ trades' = r2.trades
            /\ file' = r2.file
            /\ fed_max' = <<signals[1].entry_price, signals[2].entry_price>>
    /\ UNCHANGED <<engine, call, training, positions, positions_file>>

\* update_trade on a trade of the scan, addressed by its signal id
ScanUpdateTrade ==
    /\ engine = "scan"
    /\ \E k \in DOMAIN trades, p \in ClosePrices, t \in Times :
         LET id == trades[k].signal_id
             r == update_trade(trades, file, training, id, p, t, t)
             i == find_trade(trades, id)
         IN /\ trades' = r.trades
            /\ file' = r.file
            /\ training' = r.training
            /\ fed_max' = Feed(i, trades[i].outcome = PENDING, p)
    /\ UNCHANGED <<engine, call, positions, positions_file>>

\* close_trade on a trade of the scan, addressed by its signal id
ScanCloseTrade ==
    /\ engine = "scan"
    /\ \E k \in DOMAIN trades, p \in AnalysisPrices, now \in CloseTimes :
         LET r == close_trade(trades, file, training, trades[k].signal_id, p,
                              "Manual close", now)
         IN /\ trades' = r.trades
            /\ file' = r.file
            /\ training' = r.training
    /\ UNCHANGED <<engine, call, positions, positions_file, fed_max>>

Init ==
    /\ engine \in {"paper", "tracker"}
    /\ trades = <<>>
    /\ file = [state |-> "absent", data |-> <<>>]
    /\ training = <<>>
    /\ positions = <<>>
    /\ positions_file = [state |-> "absent", data |-> <<>>]
    /\ fed_max = <<>>
    /\ call = NoCall

Next ==
    \/ AddSignal
    \/ AddManualTrade
    \/ UpdateTrade
    \/ CloseTrade
    \/ CloseTradeWithAnalysis
    \/ AddPosition
    \/ UpdatePosition
    \/ CheckExitSignals
    \/ ClosePosition

Spec == Init /\ [][Next]_vars

\* the calls of RiskManager: the services hold no record, one call is made
RiskInit ==
    /\ engine = "risk"
    /\ trades = <<>>
    /\ file = [state |-> "absent", data |-> <<>>]
    /\ training = <<>>
    /\ positions = <<>>
    /\ positions_file = [state |-> "absent", data |-> <<>>]
    /\ fed_max = <<>>
    /\ call \in RiskArguments

RiskNext ==
    \/ ShouldTakeTrade
    \/ CalculateTrailingStop

RiskSpec == RiskInit /\ [][RiskNext]_vars

\* the calls of the strategy evaluators and of the detector: the services hold
\* no record; calls are made one after another on one contract and history
StrategyInit ==
    /\ engine = "strategy"
    /\ trades = <<>>
    /\ file = [state |-> "absent", data |-> <<>>]
    /\ training = <<>>
    /\ positions = <<>>
    /\ positions_file = [state |-> "absent", data |-> <<>>]
    /\ fed_max = <<>>
    /\ call \in StrategyArguments

StrategyNext ==
    \/ ScalpingDetectSignal
    \/ MomentumDetectSignal
    \/ VolumeSpikeDetectSignal
    \/ SwingDetectSignal
    \/ AnalyzeContract

StrategySpec == StrategyInit /\ [][StrategyNext]_vars

\* the calls of GreeksCalculator: the services hold no record, one call is made
GreeksInit ==
    /\ engine = "greeks"
    /\ trades = <<>>
    /\ file = [state |-> "absent", data |-> <<>>]
    /\ training = <<>>
    /\ positions = <<>>
    /\ positions_file = [state |-> "absent", data |-> <<>>]
    /\ fed_max = <<>>
    /\ call \in GreeksArguments

GreeksNext ==
    \/ CalculateAllGreeks
    \/ CalculateImpliedVolatility

GreeksSpec == GreeksInit /\ [][GreeksNext]_vars

\* a paper-trading engine that auto-logs the signals of one scan
ScanInit ==
    /\ engine = "scan"
    /\ trades = <<>>
    /\ file = [state |-> "absent", data |-> <<>>]
    /\ training = <<>>
    /\ positions = <<>>
    /\ positions_file = [state |-> "absent", data |-> <<>>]
    /\ fed_max = <<>>
    /\ call = NoCall

ScanNext ==
    \/ AutoLogSignals
    \/ ScanUpdateTrade
    \/ ScanCloseTrade

ScanSpec == ScanInit /\ [][ScanNext]_vars

(***************************** properties **********************************)

\* C1: update_trade on a PENDING trade whose stop_loss is below its
\* target_price: a price at or above the target closes the trade in that call
\* as HIT_TARGET with exit_price exactly target_price and the P/L computed
\* from target_price; a price at or below the stop closes it as HIT_STOP at
\* stop_loss; a price strictly between the two, before the expiration date,
\* leaves it PENDING.
C1_AutoCloseAtTargetOrStop ==
    \A id \in AllIds, p \in Prices, t \in Times :
        LET i == find_trade(trades, id)
            r == update_trade(trades, file, training, id, p, t, t)
        IN (i # 0 /\ trades[i].outcome = PENDING
                  /\ trades[i].stop_loss < trades[i].target_price) =>
           LET old == trades[i]
               new == r.trades[i]
               expired == old.expiration.kind \in {"str", "date"}
                          /\ t >= old.expiration.day
           IN /\ p >= old.target_price =>
                    /\ new.outcome = HIT_TARGET
                    /\ new.exit_price = Some(old.target_price)
                    /\ new.profit_loss = Some(old.target_price - old.entry_price)
                    /\ new.profit_loss_percent =
                         Some(Percent(old.target_price - old.entry_price, old.entry_price))
              /\ p <= old.stop_loss =>
                    /\ new.outcome = HIT_STOP
                    /\ new.exit_price = Some(old.stop_loss)
                    /\ new.profit_loss = Some(old.stop_loss - old.entry_price)
                    /\ new.profit_loss_percent =
                         Some(Percent(old.stop_loss - old.entry_price, old.entry_price))
              /\ (old.stop_loss < p /\ p < old.target_price /\ ~expired) =>
                    new.outcome = PENDING

\* a trade closed at its target by a price that overshot the target
C1_Witness ==
    \E i \in DOMAIN trades :
        /\ trades[i].stop_loss < trades[i].target_price
        /\ trades[i].outcome = HIT_TARGET
        /\ trades[i].notes = "target_hit"
        /\ Val(trades[i].current_price) > trades[i].target_price
        /\ trades[i].exit_price = Some(trades[i].target_price)

\* C2: update_trade on a trade that is not PENDING, and update_position on a
\* closed position, with any price and time, return the record and leave its
\* exit_price, exit_time, outcome / status, profit_loss, profit_loss_percent,
\* current_price and highest_price as they were.
C2_TerminalUpdateIsNoOp ==
    /\ \A id \in AllIds, p \in Prices, t \in Times :
        LET i == find_trade(trades, id)
            r == update_trade(trades, file, training, id, p, t, t)
        IN (i # 0 /\ trades[i].outcome # PENDING) =>
            /\ r.ret = Some(trades[i])
            /\ r.trades[i].exit_price = trades[i].exit_price
            /\ r.trades[i].exit_time = trades[i].exit_time
            /\ r.trades[i].outcome = trades[i].outcome
            /\ r.trades[i].profit_loss = trades[i].profit_loss
            /\ r.trades[i].profit_loss_percent = trades[i].profit_loss_percent
            /\ r.trades[i].current_price = trades[i].current_price
            /\ r.trades[i].highest_price = trades[i].highest_price
    /\ \A id \in PositionIds, p \in Prices, t \in Times :
        LET i == get_position(positions, id)
            r == update_position(positions, positions_file, id, p, t)
        IN (i # 0 /\ positions[i].status = "closed") =>
            /\ r.ret = Some(positions[i])
            /\ r.positions[i].exit_price = positions[i].exit_price
            /\ r.positions[i].exit_time = positions[i].exit_time
            /\ r.positions[i].status = positions[i].status
            /\ r.positions[i].profit_loss = positions[i].profit_loss
            /\ r.positions[i].profit_loss_percent = positions[i].profit_loss_percent
            /\ r.positions[i].current_price = positions[i].current_price
            /\ r.positions[i].highest_price = positions[i].highest_price

\* a closed trade that an update at another price would change if it were applied
C2_Witness ==
    \E i \in DOMAIN trades :
        /\ trades[i].outcome \in {HIT_STOP, CLOSED_MANUAL}
        /\ trades[i].current_price # None
        /\ \E p \in Prices : p > Val(trades[i].highest_price)

\* C3: terminal states are absorbing: no operation (an update, close_position,
\* close_trade, close_trade_with_analysis) brings a closed position back to
\* active or a closed trade back to PENDING, or replaces a trade's terminal
\* outcome with a different one.
C3_TerminalAbsorbing ==
    [][/\ \A i \in DOMAIN trades :
            trades[i].outcome # PENDING => trades'[i].outcome = trades[i].outcome
       /\ \A i \in DOMAIN positions :
            positions[i].status = "closed" => positions'[i].status = "closed"]_vars

\* C4: once a position or trade is closed its exit_price, exit_time,
\* exit_reason (positions), profit_loss and profit_loss_percent are all set,
\* and no later operation, a second close included, changes them.
C4_ExitFieldsFrozen ==
    [][/\ \A i \in DOMAIN positions : positions[i].status = "closed" =>
            /\ None \notin {positions[i].exit_price, positions[i].exit_time,
                            positions[i].exit_reason, positions[i].profit_loss,
                            positions[i].profit_loss_percent}
            /\ positions'[i].exit_price = positions[i].exit_price
            /\ positions'[i].exit_time = positions[i].exit_time
            /\ positions'[i].exit_reason = positions[i].exit_reason
            /\ positions'[i].profit_loss = positions[i].profit_loss
            /\ positions'[i].profit_loss_percent = positions[i].profit_loss_percent
       /\ \A i \in DOMAIN trades : trades[i].outcome # PENDING =>
            /\ None \notin {trades[i].exit_price, trades[i].exit_time,
                            trades[i].profit_loss, trades[i].profit_loss_percent}
            /\ trades'[i].exit_price = trades[i].exit_price
            /\ trades'[i].exit_time = trades[i].exit_time
            /\ trades'[i].profit_loss = trades[i].profit_loss
            /\ trades'[i].profit_loss_percent = trades[i].profit_loss_percent]_vars

\* C5: the auto-close rules of update_trade have the priority target, stop,
\* expiration: a price at or above the target closes a PENDING trade as
\* HIT_TARGET even when the stop condition holds too or the expiration date
\* has been reached, and a price at or below the stop (and below the target)
\* closes it as HIT_STOP even when the expiration date has been reached.
C5_AutoClosePriority ==
    \A id \in AllIds, p \in Prices, t \in Times :
        LET i == find_trade(trades, id)
            r == update_trade(trades, file, training, id, p, t, t)
        IN (i # 0 /\ trades[i].outcome = PENDING) =>
            /\ p >= trades[i].target_price => r.trades[i].outcome = HIT_TARGET
            /\ (p < trades[i].target_price /\ p <= trades[i].stop_loss) =>
                    r.trades[i].outcome = HIT_STOP

\* a trade closed as HIT_TARGET by an update for which the stop condition held
\* as well and the expiration date had been reached
C5_Witness ==
    \E i \in DOMAIN trades :
        /\ trades[i].outcome = HIT_TARGET
        /\ trades[i].notes = "target_hit"
        /\ Val(trades[i].current_price) <= trades[i].stop_loss
        /\ strptime(trades[i].expiration) # None
        /\ Val(trades[i].exit_time) >= Val(strptime(trades[i].expiration))

\* C6: a PENDING trade, one created by add_signal from an OptionsSignal
\* included, is closed by the first update_trade whose current_time is at or
\* after its expiration date and whose price is strictly between stop and
\* target: EXPIRED_WORTHLESS, exit_price 0, profit_loss -entry_price,
\* profit_loss_percent -100.
C6_ExpiresWorthless ==
    \A id \in AllIds, p \in Prices, t \in Times :
        LET i == find_trade(trades, id)
            r == update_trade(trades, file, training, id, p, t, t)
        IN (/\ i # 0
            /\ trades[i].outcome = PENDING
            /\ trades[i].expiration.kind \in {"str", "date"}
            /\ t >= trades[i].expiration.day
            /\ trades[i].stop_loss < p
            /\ p < trades[i].target_price) =>
            /\ r.trades[i].outcome = EXPIRED_WORTHLESS
            /\ r.trades[i].exit_price = Some(0)
            /\ r.trades[i].profit_loss = Some(-trades[i].entry_price)
            /\ r.trades[i].profit_loss_percent = Some(Frac(-100, 1))

\* C7: while a position is active, after each update_position its
\* highest_price is the largest of its entry price and the prices fed so far.
C7_PositionHighWaterMark ==
    \A i \in DOMAIN positions :
        positions[i].highest_price = Some(fed_max[i])

\* an active position whose price went above the entry price and came back
\* below it
C7_Witness ==
    \E i \in DOMAIN positions :
        /\ positions[i].status = "active"
        /\ Val(positions[i].current_price) < positions[i].entry_price
        /\ Val(positions[i].highest_price) > positions[i].entry_price

\* C8: for a paper trade created by add_signal, after each update_trade made
\* while it is PENDING its highest_price is the largest of its entry price
\* and the prices fed so far.
C8_PaperHighWaterMark ==
    \A i \in DOMAIN trades :
        (trades[i].signal_id \in SignalIds /\ trades[i].current_price # None) =>
            trades[i].highest_price = Some(fed_max[i])

\* the price of a record that P/L is computed from: the exit price once it is
\* closed, the current price before
PositionPrice(pos) ==
    IF pos.status = "closed" THEN Val(pos.exit_price) ELSE Val(pos.current_price)

TradePrice(trade) ==
    IF trade.outcome # PENDING THEN Val(trade.exit_price) ELSE Val(trade.current_price)

\* C9 as stated: after every update and close, for positions and paper trades
\* alike, profit_loss_percent = (price - entry_price) / entry_price * 100 and
\* profit_loss = (price - entry_price) * 100 * contracts held.
C9_Original ==
    /\ \A i \in DOMAIN positions : positions[i].profit_loss # None =>
        /\ positions[i].profit_loss_percent =
             Some(Percent(PositionPrice(positions[i]) - positions[i].entry_price,
                          positions[i].entry_price))
        /\ Val(positions[i].profit_loss) =
             (PositionPrice(positions[i]) - positions[i].entry_price) * 100
                * positions[i].contracts_bought
    /\ \A i \in DOMAIN trades : trades[i].profit_loss # None =>
        /\ trades[i].profit_loss_percent =
             Some(Percent(TradePrice(trades[i]) - trades[i].entry_price,
                          trades[i].entry_price))
        /\ \E contracts \in 1..MaxContracts :
             Val(trades[i].profit_loss) =
                (TradePrice(trades[i]) - trades[i].entry_price) * 100 * contracts

\* C9: after every update and close, profit_loss_percent =
\* (price - entry_price) / entry_price * 100 for positions and paper trades
\* alike; profit_loss = (price - entry_price) * 100 * contracts_bought for a
\* position, and profit_loss = price - entry_price, per share and without a
\* multiplier, for a paper trade.
C9_ProfitLossFormulas ==
    /\ \A i \in DOMAIN positions : positions[i].profit_loss # None =>
        /\ positions[i].profit_loss_percent =
             Some(Percent(PositionPrice(positions[i]) - positions[i].entry_price,
                          positions[i].entry_price))
        /\ Val(positions[i].profit_loss) =
             (PositionPrice(positions[i]) - positions[i].entry_price) * 100
                * positions[i].contracts_bought
    /\ \A i \in DOMAIN trades : trades[i].profit_loss # None =>
        /\ trades[i].profit_loss_percent =
             Some(Percent(TradePrice(trades[i]) - trades[i].entry_price,
                          trades[i].entry_price))
        /\ Val(trades[i].profit_loss) = TradePrice(trades[i]) - trades[i].entry_price

\* a position of two contracts closed away from its entry price and from the
\* last price it was updated with
C9_Witness ==
    \E i \in DOMAIN positions :
        /\ positions[i].status = "closed"
        /\ positions[i].contracts_bought = 2
        /\ Val(positions[i].exit_price) # positions[i].entry_price
        /\ Val(positions[i].exit_price) # Val(positions[i].current_price)

\* C10: exit signals are advisory: check_exit_signals changes no field of a
\* position or trade, and after an update_trade in which no auto-close rule
\* fires the trade is still PENDING whatever signals the call produced.
C10_SignalsAdvisory ==
    /\ \A id \in PositionIds, t \in Times :
        position_check_exit_signals(positions, id, t).positions = positions
    /\ \A i \in DOMAIN trades, t \in Times :
        check_exit_signals(trades[i], t).trade = trades[i]
    /\ \A id \in AllIds, p \in Prices, t \in Times :
        LET i == find_trade(trades, id)
            r == update_trade(trades, file, training, id, p, t, t)
        IN (/\ i # 0
            /\ trades[i].outcome = PENDING
            /\ p < trades[i].target_price
            /\ p > trades[i].stop_loss
            /\ ~(strptime(trades[i].expiration) # None
                 /\ t >= Val(strptime(trades[i].expiration)))) =>
            r.trades[i].outcome = PENDING

\* a trade still PENDING after an update that produced a high-urgency signal
C10_Witness ==
    \E i \in DOMAIN trades :
        /\ trades[i].outcome = PENDING
        /\ \E k \in DOMAIN trades[i].exit_signals :
              trades[i].exit_signals[k].urgency = "high"

\* the signals of list sigs with the given reason
SignalsFor(sigs, reason) == {k \in DOMAIN sigs : sigs[k].reason = reason}

\* the P/L percent and the price check_exit_signals reads from a record
PnlOf(rec) ==
    IF rec.profit_loss_percent = None THEN Frac(0, 1) ELSE Val(rec.profit_loss_percent)

PriceOf(rec) ==
    IF rec.current_price = None THEN rec.entry_price ELSE Val(rec.current_price)

\* the claimed trailing-stop condition: up 15% or more with the price at or
\* below 85% of the highest price seen
TrailingCondition(rec) ==
    /\ PnlOf(rec).num >= 15 * PnlOf(rec).den
    /\ rec.highest_price # None
    /\ 100 * PriceOf(rec) <= 85 * Val(rec.highest_price)

C11_FallingBelowThreshold ==
    \E i \in DOMAIN trades :
        /\ trades[i].outcome = PENDING
        /\ trades[i].highest_price # None
        /\ 100 * PriceOf(trades[i]) <= 85 * Val(trades[i].highest_price)
        /\ SignalsFor(trades[i].exit_signals, "trailing_stop") = {}

\* the claimed approach zones: within 5% below the target, within 10% above
\* the stop
NearTarget(rec) ==
    100 * PriceOf(rec) >= 95 * rec.target_price /\ PriceOf(rec) < rec.target_price

NearStop(rec) ==
    rec.stop_loss < PriceOf(rec) /\ 100 * PriceOf(rec) <= 110 * rec.stop_loss

\* the paper engine's half of C12: a PENDING trade gets a high-urgency target
\* signal exactly in the zone below the target and a high-urgency stop signal
\* exactly in the zone above the stop
PaperApproachSignals ==
    \A i \in DOMAIN trades, t \in Times : trades[i].outcome = PENDING =>
        LET sigs == check_exit_signals(trades[i], t).ret IN
        /\ (SignalsFor(sigs, "target_hit") # {}) <=> NearTarget(trades[i])
        /\ (SignalsFor(sigs, "stop_hit") # {}) <=> NearStop(trades[i])
        /\ \A k \in SignalsFor(sigs, "target_hit") \cup SignalsFor(sigs, "stop_hit") :
                sigs[k].urgency = "high"

C13_BreakevenSignal ==
    /\ \A i \in DOMAIN trades, t \in Times, moved \in BOOLEAN :
        trades[i].outcome = PENDING =>
        LET trade == [trades[i] EXCEPT !.breakeven_moved = moved]
            sigs == check_exit_signals(trade, t).ret
            found == SignalsFor(sigs, "breakeven")
        IN /\ (found # {}) <=> (PnlOf(trade).num >= 10 * PnlOf(trade).den /\ ~moved)
           /\ \A k \in found : /\ sigs[k].urgency = "medium"
                               /\ sigs[k].suggested_exit_price = trade.entry_price
    /\ \A i \in DOMAIN positions, t \in Times, moved \in BOOLEAN :
        (positions[i].status = "active"
            /\ get_position(positions, positions[i].position_id) = i) =>
        LET ps == [positions EXCEPT ![i].breakeven_moved = moved]
            sigs == position_check_exit_signals(ps, ps[i].position_id, t).ret
            found == SignalsFor(sigs, "breakeven")
        IN /\ (found # {}) <=> (PnlOf(ps[i]).num >= 10 * PnlOf(ps[i]).den /\ ~moved)
           /\ \A k \in found : /\ sigs[k].urgency = "medium"
                               /\ sigs[k].suggested_exit_price = ps[i].entry_price

\* a PENDING trade, up 10% or more, whose last update produced the breakeven
\* suggestion at its entry price
C13_Witness ==
    \E i \in DOMAIN trades :
        /\ trades[i].outcome = PENDING
        /\ PnlOf(trades[i]).num >= 10 * PnlOf(trades[i]).den
        /\ \E k \in SignalsFor(trades[i].exit_signals, "breakeven") :
              trades[i].exit_signals[k].suggested_exit_price = trades[i].entry_price

\* C14: close_trade on a PENDING trade sets exit_price to the supplied price,
\* computes the P/L from it, and sets the outcome to BREAKEVEN if
\* |profit_loss_percent| < 5, otherwise to HIT_TARGET if the P/L is positive
\* and to HIT_STOP if it is negative, whatever the trade's target_price and
\* stop_loss; it never leaves the trade PENDING.
C14_ManualCloseOutcome ==
    \A id \in AllIds, p \in ClosePrices, t \in CloseTimes :
        LET i == find_trade(trades, id)
            r == close_trade(trades, file, training, id, p, "Manual close", t)
        IN (i # 0 /\ trades[i].outcome = PENDING) =>
            LET entry == trades[i].entry_price
                new == r.trades[i]
            IN /\ new.exit_price = Some(p)
               /\ new.profit_loss = Some(p - entry)
               /\ new.profit_loss_percent = Some(Percent(p - entry, entry))
               /\ new.outcome # PENDING
               /\ new.outcome =
                    IF 100 * Abs(p - entry) < 5 * entry THEN BREAKEVEN
                    ELSE IF p > entry THEN HIT_TARGET
                    ELSE HIT_STOP

\* a trade closed by hand as HIT_TARGET at a price below its target
C14_Witness ==
    \E i \in DOMAIN trades :
        /\ trades[i].outcome = HIT_TARGET
        /\ trades[i].notes = "Manual close"
        /\ trades[i].stop_loss < trades[i].target_price
        /\ Val(trades[i].exit_price) < trades[i].target_price

\* C15: update_trade and close_trade of the paper engine, and
\* update_position, close_position and check_exit_signals of PositionTracker,
\* called with an id that matches no stored record, return None (an empty
\* list for check_exit_signals) and leave every stored record unchanged.
C15_UnknownIdIsNoOp ==
    /\ \A id \in AllIds, p \in Prices, t \in Times :
        (\A i \in DOMAIN trades : trades[i].signal_id # id) =>
        LET u == update_trade(trades, file, training, id, p, t, t)
            c == close_trade(trades, file, training, id, p, "Manual close", t)
        IN /\ u.ret = None /\ u.trades = trades
           /\ u.file = file /\ u.training = training
           /\ c.ret = None /\ c.trades = trades
           /\ c.file = file /\ c.training = training
    /\ \A id \in PositionIds, p \in Prices, t \in Times :
        (\A i \in DOMAIN positions : positions[i].position_id # id) =>
        LET u == update_position(positions, positions_file, id, p, t)
            c == close_position(positions, positions_file, id, p, "Manual close", t)
            x == position_check_exit_signals(positions, id, t)
        IN /\ u.ret = None /\ u.positions = positions /\ u.file = positions_file
           /\ c.ret = None /\ c.positions = positions /\ c.file = positions_file
           /\ x.ret = <<>> /\ x.positions = positions

\* an open trade is stored, and another id of the callers matches no record
C15_Witness ==
    /\ \E i \in DOMAIN trades : trades[i].outcome = PENDING
    /\ \E id \in AllIds : \A i \in DOMAIN trades : trades[i].signal_id # id

\* C16: when the expiration string of a trade or position cannot be parsed as
\* YYYY-MM-DD, update_trade and check_exit_signals still return: the
\* expiration close and the expiration warning are skipped, current_price,
\* highest_price and P/L are still updated, the target and stop rules still
\* apply, and otherwise the trade stays PENDING.
C16_MalformedExpirationTolerated ==
    /\ \A id \in AllIds, p \in Prices, t \in Times :
        LET i == find_trade(trades, id)
            r == update_trade(trades, file, training, id, p, t, t)
        IN (i # 0 /\ trades[i].outcome = PENDING /\ trades[i].expiration = ExpBad) =>
            LET old == trades[i]
                new == r.trades[i]
            IN /\ r.ret = Some(new)
               /\ new.current_price = Some(p)
               /\ new.highest_price =
                    IF old.highest_price = None \/ p > Val(old.highest_price)
                    THEN Some(p) ELSE old.highest_price
               /\ new.profit_loss # None /\ new.profit_loss_percent # None
               /\ SignalsFor(new.exit_signals, "exp_warning") = {}
               /\ SignalsFor(check_exit_signals(old, t).ret, "exp_warning") = {}
               /\ new.outcome =
                    IF p >= old.target_price THEN HIT_TARGET
                    ELSE IF p <= old.stop_loss THEN HIT_STOP
                    ELSE PENDING
               /\ new.outcome = PENDING =>
                    /\ new.profit_loss = Some(p - old.entry_price)
                    /\ new.profit_loss_percent =
                         Some(Percent(p - old.entry_price, old.entry_price))
    /\ \A i \in DOMAIN positions, t \in Times :
        (positions[i].expiration = ExpBad
            /\ get_position(positions, positions[i].position_id) = i) =>
        SignalsFor(position_check_exit_signals(
            positions, positions[i].position_id, t).ret, "exp_warning") = {}

\* a trade with a malformed expiration, still PENDING after an update on day 6
C16_Witness ==
    \E i \in DOMAIN trades :
        /\ trades[i].expiration = ExpBad
        /\ trades[i].outcome = PENDING
        /\ trades[i].last_update = Some(6)
        /\ trades[i].current_price # None

\* C17: RiskManager.should_take_trade returns (False, reason) exactly when
\* current_daily_pnl < -(account_balance * 0.03) or active_trades >= 3, and
\* (True, "OK") in every other case; with balance 10000 and no active trades
\* a daily P/L of -301 is rejected and one of -299 is allowed.
C17_CircuitBreaker ==
    call.op = "should_take_trade" =>
        LET a == call.args
            reject == \/ 100 * a.current_daily_pnl < -(3 * a.account_balance)
                      \/ a.active_trades >= 3
        IN /\ call.ret[1] = ~reject
           /\ ~reject => call.ret = <<TRUE, "OK">>
           /\ reject => call.ret[2] # "OK"
           /\ (a.account_balance = 10000 /\ a.active_trades = 0) =>
                /\ a.current_daily_pnl = -301 => call.ret[1] = FALSE
                /\ a.current_daily_pnl = -299 => call.ret[1] = TRUE

\* the call with balance 10000, no active trade and a daily P/L of -301 was
\* made and rejected
C17_Witness ==
    /\ call.op = "should_take_trade"
    /\ call.args.account_balance = 10000
    /\ call.args.active_trades = 0
    /\ call.args.current_daily_pnl = -301
    /\ call.ret[1] = FALSE

\* C18 as stated: for every entry price e and highest price h > e,
\* calculate_trailing_stop with the default trail returns 0.75 * h.
C18_Original ==
    (call.op = "calculate_trailing_stop"
        /\ call.args.highest_price > call.args.entry_price) =>
        call.ret = 75 * call.args.highest_price

\* C18: for every entry price e and highest price h > e,
\* calculate_trailing_stop with the default trail returns the larger of
\* 0.75 * h and the original stop 0.95 * e: the stop trails 25% below the
\* highest price only once that is above the original stop, and is never
\* below it.
C18_TrailingStopFloor ==
    (call.op = "calculate_trailing_stop"
        /\ call.args.highest_price > call.args.entry_price) =>
        /\ call.ret >= 75 * call.args.highest_price
        /\ call.ret >= 95 * call.args.entry_price
        /\ call.ret \in {75 * call.args.highest_price, 95 * call.args.entry_price}

\* a call for a position in profit whose trailing stop is the original stop,
\* above 0.75 * h
C18_Witness ==
    /\ call.op = "calculate_trailing_stop"
    /\ call.args.highest_price > call.args.entry_price
    /\ call.ret = 95 * call.args.entry_price
    /\ call.ret > 75 * call.args.highest_price

(***************************************************************************)
(* C19, C20: the strategy evaluators, under StrategySpec                   *)
(***************************************************************************)
\* the current call and the earlier call are calls of the same evaluator
RepeatedCall ==
    /\ call.op \in Evaluators
    /\ call.earlier # None
    /\ Val(call.earlier).op = call.op

\* the clock readings t1 and t2 agree in what evaluator op reads of the clock:
\* the high-edge window for scalping, the whole days left to a date for
\* scalping and swing, nothing for momentum and volume spike
SameReading(op, t1, t2) ==
    CASE op = "scalping" -> /\ is_high_edge_window(t1) = is_high_edge_window(t2)
                            /\ days_until(0, t1) = days_until(0, t2)
      [] op = "swing" -> days_until(0, t1) = days_until(0, t2)
      [] OTHER -> TRUE

BracketsEntry(stop, entry, target, conf) ==
    /\ stop < entry
    /\ entry < target
    /\ 0 <= conf /\ conf <= 10000

\* C20: every BUY_CALL or BUY_PUT signal returned by the scalping, momentum
\* and swing evaluators, and every unified signal built from one after
\* candlestick-pattern enhancement, has stop < entry < target and a
\* confidence between 0 and 1.
C20_SignalsBracketEntry ==
    /\ (call.op \in {"scalping", "momentum", "swing"} /\ call.ret # None)
          => LET sig == Val(call.ret)
             IN sig.action \in {BUY_CALL, BUY_PUT}
                   => BracketsEntry(sig.stop, sig.entry, sig.target, sig.confidence)
    /\ call.op = "analyze_contract"
          => \A i \in 1..Len(call.ret) :
                call.ret[i].action \in {BUY_CALL, BUY_PUT}
                   => BracketsEntry(call.ret[i].stop_loss, call.ret[i].entry_price,
                                    call.ret[i].target_price, call.ret[i].confidence)

(***************************************************************************)
(* C21..C23, C30: single evaluators, under StrategySpec                    *)
(***************************************************************************)
\* C21: the scalping evaluator returns None for every contract whose bid-ask
\* spread exceeds the liquidity ceiling of 7.00, whatever the history, the
\* clock reading and the other contract fields are.
C21_WideSpreadRefused ==
    (call.op = "scalping" /\ spread(call.contract.pricing) > 700)
        => call.ret = None

\* the scalping evaluator was called inside a high-edge window on a call with
\* a spread of 8.00 and a rising history, which every other filter accepts
C21_Witness ==
    /\ call.op = "scalping"
    /\ call.contract.pricing = WideSpread
    /\ is_high_edge_window(call.now)
    /\ call.price_history = Rising
    /\ call.contract.greeks.delta > 0
    /\ apply_all_filters(call.contract, momentum(call.price_history, 1), call.now)
    /\ call.ret = None

\* C22: an accepted volume-spike signal has confidence 0.92 when the absolute
\* net premium flow is at least $5,000,000, 0.88 when it is at least
\* $2,000,000 and below $5,000,000, and 0.85 otherwise.
C22_ConfidenceTiers ==
    (call.op = "volume_spike" /\ call.ret # None)
        => LET flow == Abs(calculate_premium_flow(call.block_trades))
           IN Val(call.ret).confidence =
                 (IF flow >= 5000000 THEN 9200
                  ELSE IF flow >= 2000000 THEN 8800
                  ELSE 8500)

\* the swing gates other than the days to expiration, for a bullish setup on a
\* call
SwingCallSetup(contract, price_history_1h, price_history_daily) ==
    /\ contract.greeks.delta >= 40 /\ contract.greeks.delta <= 60
    /\ contract.pricing.ask <= 500
    /\ contract.volume_metrics.volume >= 50
    /\ contract.volume_metrics.open_interest >= 100
    /\ price_history_daily.len >= 10
    /\ price_history_daily.momentum_3 > 100
    /\ price_history_daily.rsi >= 30 /\ price_history_daily.rsi <= 45
    /\ price_history_1h.len >= 5
    /\ price_history_1h.momentum_1 > 10

\* C23: the swing evaluator returns None for every contract whose days to
\* expiration lie outside 14..30, and for an OptionContract whose days to
\* expiration lie inside 14..30 and that passes every other swing gate of the
\* bullish setup it returns BUY_CALL with target = 1.30 * ask and
\* stop = 0.85 * ask.
C23_SwingGatesOnDaysToExpiration ==
    call.op = "swing"
        => LET days_to_exp == days_until(call.contract.expiration.day, call.now)
               ask == call.contract.pricing.ask
           IN /\ (days_to_exp < 14 \/ days_to_exp > 30) => call.ret = None
              /\ (/\ days_to_exp >= 14 /\ days_to_exp <= 30
                  /\ SwingCallSetup(call.contract, call.price_history, call.price_history))
                    => /\ call.ret # None
                       /\ Val(call.ret).action = BUY_CALL
                       /\ Val(call.ret).target = ask * 130
                       /\ Val(call.ret).stop = ask * 85

C25_EdgeCasesReturnZeros ==
    call.op = "calculate_all_greeks"
        => /\ call.ret.exception = "none"
           /\ call.args.days_to_expiration <= 0
                 => /\ call.ret.delta = "0.0" /\ call.ret.gamma = "0.0"
                    /\ call.ret.theta = "0.0" /\ call.ret.vega = "0.0"
                    /\ call.ret.rho = "0.0"
           /\ (call.args.implied_volatility <= 0 \/ call.args.underlying_price <= 0)
                 => call.ret.gamma = "0.0"

(***************************************************************************)
(* C26..C29: the paper-trading engine                                      *)
(***************************************************************************)
\* training data `after` is `before` with exactly one record, for trade id
OneRecordAppended(before, after, id) ==
    /\ Len(after) = Len(before) + 1
    /\ SubSeq(after, 1, Len(before)) = before
    /\ after[Len(after)].signal_id = id

\* C26: with training data enabled, each transition of a paper trade out of
\* PENDING made by update_trade (target hit, stop hit or expired worthless) or
\* by close_trade appends exactly one outcome record for that trade to the
\* training data, and no record is appended for a trade that stays PENDING or
\* was already closed.
C26_OutcomeRecordedOnce ==
    TRAINING_DATA_ENABLED =>
    /\ \A id \in AllIds, p \in Prices, t \in Times :
          LET i == find_trade(trades, id)
              r == update_trade(trades, file, training, id, p, t, t)
          IN IF i # 0 /\ trades[i].outcome = PENDING /\ r.trades[i].outcome # PENDING
             THEN OneRecordAppended(training, r.training, id)
             ELSE r.training = training
    /\ \A id \in AllIds, p \in ClosePrices, now \in CloseTimes :
          LET i == find_trade(trades, id)
              r == close_trade(trades, file, training, id, p, "Manual close", now)
          IN IF i # 0 /\ trades[i].outcome = PENDING /\ r.trades[i].outcome # PENDING
             THEN OneRecordAppended(training, r.training, id)
             ELSE r.training = training

\* C27: no two trades of the engine share a signal_id, so that update_trade
\* and close_trade with a trade's id act on that trade: a call with the id of
\* a PENDING trade changes that trade and no other; this holds for the
\* signals of one scan auto-logged with add_signal.
C27_SignalIdsUnique ==
    /\ \A i, j \in DOMAIN trades : i # j => trades[i].signal_id # trades[j].signal_id
    /\ \A k \in DOMAIN trades :
          trades[k].outcome = PENDING => find_trade(trades, trades[k].signal_id) = k

\* what the file holds equals the trades ts on ids, prices, outcome and exit
\* fields
FileHolds(fl, ts) ==
    /\ fl.state = "ok"
    /\ Len(fl.data) = Len(ts)
    /\ \A i \in DOMAIN ts :
          /\ fl.data[i].signal_id = ts[i].signal_id
          /\ fl.data[i].entry_price = ts[i].entry_price
          /\ fl.data[i].target_price = ts[i].target_price
          /\ fl.data[i].stop_loss = ts[i].stop_loss
          /\ fl.data[i].outcome = ts[i].outcome
          /\ fl.data[i].exit_price = ts[i].exit_price
          /\ fl.data[i].profit_loss = ts[i].profit_loss
          /\ fl.data[i].notes = ts[i].notes

\* C28: once a mutating call was made the trades file holds the in-memory
\* trades; a new engine that loads the file holds the same trades (ids,
\* prices, outcome, exit fields), and a close_trade or update_trade that
\* changes a trade of the reloaded engine is written to the file.
C28_FileHoldsTradesAcrossRestart ==
    trades # <<>> =>
       /\ FileHolds(file, trades)
       /\ LET reloaded == load_trades(file) IN
          /\ Len(reloaded) = Len(trades)
          /\ FileHolds(file, reloaded)
          /\ \A id \in AllIds, p \in ClosePrices, now \in CloseTimes :
               LET r == close_trade(reloaded, file, training, id, p, "Manual close", now)
               IN r.trades # reloaded => FileHolds(r.file, r.trades)
          /\ \A id \in AllIds, p \in Prices, t \in Times :
               LET r == update_trade(reloaded, file, training, id, p, t, t)
               IN r.trades # reloaded => FileHolds(r.file, r.trades)

\* the restart part alone, for engines whose file was written: a close_trade
\* that changes a trade of the reloaded engine is written to the file
ReloadedEngineKeepsSaving ==
    (trades # <<>> /\ FileHolds(file, trades)) =>
       LET reloaded == load_trades(file) IN
          \A id \in AllIds, p \in ClosePrices, now \in CloseTimes :
               LET r == close_trade(reloaded, file, training, id, p, "Manual close", now)
               IN r.trades # reloaded => FileHolds(r.file, r.trades)

\* C29: a paper trade whose outcome is not PENDING carries an empty stored
\* exit_signals list, as check_exit_signals returns for it, whether it was
\* closed by update_trade or by close_trade.
C29_ClosedTradeStoresNoExitSignals ==
    \A i \in DOMAIN trades :
        trades[i].outcome # PENDING =>
            /\ trades[i].exit_signals = <<>>
            /\ \A t \in Times : check_exit_signals(trades[i], t).ret = trades[i].exit_signals

\* the same for trades that close_trade closed without an earlier update
ClosedBeforeAnyUpdateStoresNoExitSignals ==
    \A i \in DOMAIN trades :
        (trades[i].outcome # PENDING /\ trades[i].last_update = None) =>
            trades[i].exit_signals = <<>>

(***************************************************************************)
(* C30: candlestick patterns and the signal's direction, under StrategySpec *)
(***************************************************************************)
\* the most confident patterns among those relevant to the strategy
StrongestRelevant(strategy, patterns) ==
    LET relevant == { patterns[i] : i \in { j \in DOMAIN patterns :
                          patterns[j].timeframe \in relevant_timeframes(strategy) } }
    IN { p \in relevant : \A q \in relevant : q.confidence <= p.confidence }

\* the pattern points against the direction the signal trades
Contradicts(pattern, action) ==
    \/ pattern.signal = "bullish" /\ action = BUY_PUT
    \/ pattern.signal = "bearish" /\ action = BUY_CALL

\* C30: when the strongest relevant pattern is bullish and the signal's action
\* is BUY_CALL, _enhance_signal_with_patterns raises the confidence by 0.1
\* times the pattern's confidence (capped at 1.0) and does not lower it; the
\* confidence is lowered only when the pattern contradicts the signal.
C30_BullishPatternConfirmsBuyCall ==
    (call.op = "analyze_contract" /\ call.patterns # <<>>) =>
        LET plain == analyze_contract(call.contract, call.price_history, <<>>, call.now)
        IN \A k \in DOMAIN call.ret :
              LET top == StrongestRelevant(call.ret[k].strategy, call.patterns) IN
              \A p \in top :
                 /\ (p.signal = "bullish" /\ call.ret[k].action = BUY_CALL) =>
                       /\ call.ret[k].confidence =
                             Min(10000, plain[k].confidence + p.confidence \div 10)
                       /\ call.ret[k].confidence >= plain[k].confidence
                 /\ call.ret[k].confidence < plain[k].confidence =>
                       Contradicts(p, call.ret[k].action)

\* the lowering alone: a pattern that contradicts the signal costs 0.1 of
\* confidence, down to 0.5 at most
ContradictionLowersConfidence ==
    (call.op = "analyze_contract" /\ call.patterns # <<>>) =>
        LET plain == analyze_contract(call.contract, call.price_history, <<>>, call.now)
        IN \A k \in DOMAIN call.ret :
              \A p \in StrongestRelevant(call.ret[k].strategy, call.patterns) :
                 Contradicts(p, call.ret[k].action) =>
                    call.ret[k].confidence = Max(5000, plain[k].confidence - 1000)

====
